---- MODULE Spec2Model ----
(***************************************************************************)
(* A model of the Game Boy core of oneshadab/gbemu: the CPU's interrupt    *)
(* and HALT logic (core/cpu/CPU.ts, core/cpu/instructions.ts), the memory  *)
(* bus and its I/O register file (core/memory/MMU.ts), the PPU mode        *)
(* machine (core/ppu/PPU.ts) and the timer (core/timer/Timer.ts).          *)
(*                                                                         *)
(* Byte arrays (Uint8Array, zero-filled at construction) are kept as       *)
(* finite maps holding only their non-zero cells; Get reads a cell.        *)
(* Numbers are written in decimal, with the source's hexadecimal in the    *)
(* comments.                                                               *)
(***************************************************************************)
EXTENDS Integers, Sequences, FiniteSets, TLC

VARIABLES
    \* CPU (CPU.ts, registers.ts)
    pc, sp, ime, imeScheduled, halted,
    \* MMU (MMU.ts)
    io, interruptEnable, vram, wram, oam, hram,
    \* PPU (PPU.ts)
    mode, cycles, line, lycTriggered, frameReady, windowLineCounter,
    \* Timer (Timer.ts)
    divCounter, timaCounter,
    \* observation: the operation that acted last, and what the last CPU step did
    op, lastStep,
    \* history: DI retired right after EI and no EI/RETI has executed since
    eiThenDi,
    \* history: the last value the CPU wrote to TAC (-1: none yet)
    tacWritten,
    \* number of CPU steps taken (bounds the run)
    steps,
    \* cycles the timer has been stepped by (bounds the run)
    elapsed,
    \* GameBoy.frame(): its local cyclesThisFrame, the number of calls that
    \* have returned, and whether the PPU entered line 144 during the call
    cyclesThisFrame, frames, latched,
    \* Joypad (Joypad.ts): the sets of buttons whose entry is true
    buttonStates, previousStates,
    \* MMU.cartridge: <<>> while it is null, <<c>> once cartridge c is loaded
    cartridge,
    \* Registers (registers.ts): the record [a, f] of the accumulator and flags
    registers

cpuVars == <<pc, sp, ime, imeScheduled, halted>>
memVars == <<io, interruptEnable, vram, wram, oam, hram, cartridge>>
ppuVars == <<mode, cycles, line, lycTriggered, frameReady, windowLineCounter>>
timerVars == <<divCounter, timaCounter>>
obsVars == <<op, lastStep, eiThenDi, tacWritten, steps, elapsed>>
frameVars == <<cyclesThisFrame, frames, latched>>
joypadVars == <<buttonStates, previousStates>>
extVars == <<frameVars, joypadVars, registers>>
vars == <<cpuVars, memVars, ppuVars, timerVars, obsVars, extVars>>

(***************************************************************************)
(* Bounds of the model                                                     *)
(***************************************************************************)
\* CPU steps explored by the CPU specification
MaxSteps == 5

\* cycles explored by the timer specification
MaxElapsed == 264

\* cycles explored by the timer-control specification
MaxTacElapsed == 1048

\* calls of frame() explored by the frame specification
MaxFrames == 2

\* cycles explored by the timer-overflow specification
MaxTimaElapsed == 48

\* cycles explored by the specification of the orchestrator's step
MaxStepElapsed == 60

\* cycles explored by the specification of programs run from ROM, and the
\* largest count loaded by their LD B, n
MaxProgramElapsed == 64
MaxLoop == 3

\* cycles explored by the frame-timing specification of the PPU: line 144
\* of the second frame begins at cycle 65664 + 70224 = 135888
MaxPpuElapsed == 135900

\* cycles explored by the line-timing specification of the PPU: one frame
\* of 70224 cycles and the first two lines of the next
MaxLineElapsed == 71136

\* scanlines with window pixels explored by the window specification between
\* two resets of the window line counter
MaxWindowLines == 3

\* cycles explored by the sprite specification: the scanlines 0 to 2
MaxSpriteElapsed == 912

\* CPU steps explored by the interrupt-return specification: a handler
\* interrupted by a second one, and both returns
MaxHandlerSteps == 8

\* cycles explored by the LY-compare specification of the PPU: one frame and
\* the first three lines of the next
MaxLycElapsed == 71592

(***************************************************************************)
(* utils/bits.ts and the bit operators of the source                       *)
(***************************************************************************)
\* getBit(value, bit): (value >> bit) & 1
getBit(value, bit) == (value \div (2 ^ bit)) % 2

\* a & b on bytes
RECURSIVE AndFrom(_, _, _)
AndFrom(a, b, i) ==
    IF i > 7 THEN 0
    ELSE (2 ^ i) * getBit(a, i) * getBit(b, i) + AndFrom(a, b, i + 1)

BitAnd(a, b) == AndFrom(a, b, 0)

\* value | (1 << bit)
setBit(value, bit) == value + (1 - getBit(value, bit)) * (2 ^ bit)

\* value & ~(1 << bit)
clearBit(value, bit) == value - getBit(value, bit) * (2 ^ bit)

\* value & 0xFF
to8Bit(value) == value % 256

\* value & 0xFFFF
to16Bit(value) == value % 65536

(***************************************************************************)
(* Byte arrays                                                             *)
(***************************************************************************)
\* array[index] of a zero-initialised Uint8Array
Get(array, index) == IF index \in DOMAIN array THEN array[index] ELSE 0

\* array[index] = value
Store(array, index, value) ==
    IF value = 0
    THEN [k \in (DOMAIN array) \ {index} |-> array[k]]
    ELSE [k \in (DOMAIN array) \cup {index} |->
             IF k = index THEN value ELSE array[k]]

\* the empty (all-zero) array
Zeroes == [k \in {} |-> 0]

(***************************************************************************)
(* Cartridge (core/memory/cartridge.ts) and its bank controllers           *)
(* (core/memory/mbcs).  A ROM image is the record [length, type,           *)
(* romSizeCode, ramSizeCode]: the header bytes it carries and its size.    *)
(* Outside the header every byte of an image holds the number of the       *)
(* 16 KiB bank it lies in, so that a read tells which bank answered.       *)
(***************************************************************************)
\* rom[index]; -1 stands for the undefined of a read past the end
romAt(rom, index) ==
    CASE index >= rom.length -> -1
      [] index = 327 -> rom.type                        \* 0x0147
      [] index = 328 -> rom.romSizeCode                 \* 0x0148
      [] index = 329 -> rom.ramSizeCode                 \* 0x0149
      [] "code" \in DOMAIN rom /\ index \in DOMAIN rom.code -> rom.code[index]
      [] OTHER -> index \div 16384

\* ROM_SIZES[romSizeCode] || 32 * 1024
ROM_SIZES(romSizeCode) ==
    IF romSizeCode \in 0..6 THEN 32768 * (2 ^ romSizeCode) ELSE 32768

\* RAM_SIZES[ramSizeCode] || 0
RAM_SIZES(ramSizeCode) ==
    CASE ramSizeCode = 1 -> 2048
      [] ramSizeCode = 2 -> 8192
      [] ramSizeCode = 3 -> 32768
      [] ramSizeCode = 4 -> 131072
      [] ramSizeCode = 5 -> 65536
      [] OTHER -> 0

\* the fields of a bank controller, as its constructor leaves them
newController(kind, rom, ramSize) ==
    [kind |-> kind, ram |-> Zeroes, ramLength |-> ramSize,
     ramEnabled |-> FALSE,
     romBankLow |-> 1, ramBankOrRomBankHigh |-> 0, bankingMode |-> 0,
     romBank |-> 1, ramBank |-> 0,
     romBankCount |-> rom.length \div 16384,
     ramBankCount |-> IF ramSize > 0 THEN ramSize \div 8192 ELSE 0]

\* createMBC(): ROM_ONLY gets NoMBC, the three MBC1 types get MBC1, and
\* every other type byte is warned about and gets NoMBC
createMBC(type, rom, ramSize) ==
    CASE type = 0 -> newController("NoMBC", rom, ramSize)
      [] type \in {1, 2, 3} -> newController("MBC1", rom, ramSize)
      [] OTHER -> newController("NoMBC", rom, ramSize)

\* new Cartridge(romData): parseHeader() and createMBC()
Cartridge(romData) ==
    LET type == romAt(romData, 327)
        ramSize == RAM_SIZES(romAt(romData, 329))
    IN  [rom |-> romData, type |-> type,
         romSize |-> ROM_SIZES(romAt(romData, 328)), ramSize |-> ramSize,
         mbc |-> createMBC(type, romData, ramSize)]

\* NoMBC.readROMBank0(address)
noMbcReadROMBank0(c, address) ==
    IF address >= 16384 \/ address >= c.rom.length THEN 255
    ELSE romAt(c.rom, address)

\* NoMBC.readROMBank1(address)
noMbcReadROMBank1(c, address) ==
    IF 16384 + address >= c.rom.length THEN 255
    ELSE romAt(c.rom, 16384 + address)

\* NoMBC.readRAM(address)
noMbcReadRAM(c, address) ==
    IF c.mbc.ramLength = 0 \/ address >= c.mbc.ramLength THEN 255
    ELSE Get(c.mbc.ram, address)

\* NoMBC.writeRAM(address, value)
noMbcWriteRAM(c, address, value) ==
    IF c.mbc.ramLength = 0 \/ address >= c.mbc.ramLength THEN c
    ELSE [c EXCEPT !.mbc.ram = Store(@, address, value % 256)]

\* MBC1.readROMBank0 reading physical bank 0 in either mode
mbc1ReadROMBank0Fixed(c, address) == romAt(c.rom, address)

\* MBC1.readROMBank0(address)
mbc1ReadROMBank0(c, address) ==
    IF c.mbc.bankingMode = 1
    THEN LET bank == BitAnd(c.mbc.ramBankOrRomBankHigh * 32,
                            c.mbc.romBankCount - 1)
         IN  romAt(c.rom, bank * 16384 + address)
    ELSE romAt(c.rom, address)

\* MBC1.readROMBank1 selecting the bank by the low register alone
mbc1ReadROMBank1LowOnly(c, address) ==
    LET bank == BitAnd(c.mbc.romBankLow, c.mbc.romBankCount - 1)
    IN  romAt(c.rom, bank * 16384 + address)

\* MBC1.readROMBank1(address)
mbc1ReadROMBank1(c, address) ==
    LET bank == BitAnd(c.mbc.ramBankOrRomBankHigh * 32 + c.mbc.romBankLow,
                       c.mbc.romBankCount - 1)
    IN  romAt(c.rom, bank * 16384 + address)

\* the RAM bank MBC1.readRAM and MBC1.writeRAM address
mbc1RamBank(c) ==
    IF c.mbc.bankingMode = 1 /\ c.mbc.ramBankCount > 1
    THEN BitAnd(c.mbc.ramBankOrRomBankHigh, c.mbc.ramBankCount - 1)
    ELSE 0

\* this.ram[ramAddress] of a Uint8Array of ramLength bytes: -1 stands for the
\* undefined an index past the end reads
ramAt(c, ramAddress) ==
    IF ramAddress >= c.mbc.ramLength THEN -1 ELSE Get(c.mbc.ram, ramAddress)

\* this.ram[ramAddress] = value: an index past the end stores nothing
ramStore(c, ramAddress, value) ==
    IF ramAddress >= c.mbc.ramLength THEN c
    ELSE [c EXCEPT !.mbc.ram = Store(@, ramAddress, value)]

\* MBC1.readRAM reading the array whether RAM is enabled or not
mbc1ReadRAMOpen(c, address) ==
    IF c.mbc.ramLength = 0 THEN 255
    ELSE ramAt(c, mbc1RamBank(c) * 8192 + address)

\* MBC1.readRAM(address).  ramBankCount is ramSize / 0x2000, a fraction for
\* 2 KiB of RAM, and is 0 only when ramSize is 0.
mbc1ReadRAM(c, address) ==
    IF ~c.mbc.ramEnabled \/ c.mbc.ramLength = 0 THEN 255
    ELSE ramAt(c, mbc1RamBank(c) * 8192 + address)

\* MBC1.writeRAM(address, value)
mbc1WriteRAM(c, address, value) ==
    IF ~c.mbc.ramEnabled \/ c.mbc.ramLength = 0 THEN c
    ELSE ramStore(c, mbc1RamBank(c) * 8192 + address, value)

\* MBC1.writeControl with the written low five bits kept when they are 0
mbc1WriteControlKeepsZero(c, address, value) ==
    CASE address <= 8191 ->
           [c EXCEPT !.mbc.ramEnabled = (value % 16 = 10)]
      [] address >= 8192 /\ address <= 16383 ->
           [c EXCEPT !.mbc.romBankLow = value % 32]
      [] address >= 16384 /\ address <= 24575 ->
           [c EXCEPT !.mbc.ramBankOrRomBankHigh = value % 4]
      [] OTHER ->
           [c EXCEPT !.mbc.bankingMode = value % 2]

\* MBC1.writeControl(address, value)
mbc1WriteControl(c, address, value) ==
    CASE address <= 8191 ->
           [c EXCEPT !.mbc.ramEnabled = (value % 16 = 10)]
      [] address >= 8192 /\ address <= 16383 ->
           [c EXCEPT !.mbc.romBankLow =
                         IF value % 32 = 0 THEN 1 ELSE value % 32]
      [] address >= 16384 /\ address <= 24575 ->
           [c EXCEPT !.mbc.ramBankOrRomBankHigh = value % 4]
      [] OTHER ->
           [c EXCEPT !.mbc.bankingMode = value % 2]

\* MBC3.readROMBank1(address)
mbc3ReadROMBank1(c, address) ==
    LET bank == BitAnd(c.mbc.romBank, c.mbc.romBankCount - 1)
    IN  romAt(c.rom, bank * 16384 + address)

\* whether MBC3's RAM window is closed: RAM off or absent, or an RTC
\* register selected
mbc3RamClosed(c) ==
    \/ ~c.mbc.ramEnabled
    \/ c.mbc.ramBankCount = 0
    \/ (c.mbc.ramBank >= 8 /\ c.mbc.ramBank <= 12)

\* the index MBC3.readRAM and MBC3.writeRAM address
mbc3RamAddress(c, address) ==
    BitAnd(c.mbc.ramBank, c.mbc.ramBankCount - 1) * 8192 + address

\* MBC3.readRAM(address)
mbc3ReadRAM(c, address) ==
    IF mbc3RamClosed(c) THEN 255 ELSE Get(c.mbc.ram, mbc3RamAddress(c, address))

\* MBC3.writeRAM(address, value)
mbc3WriteRAM(c, address, value) ==
    IF mbc3RamClosed(c) THEN c
    ELSE [c EXCEPT !.mbc.ram = Store(@, mbc3RamAddress(c, address), value)]

\* MBC3.writeControl(address, value)
mbc3WriteControl(c, address, value) ==
    CASE address <= 8191 ->
           [c EXCEPT !.mbc.ramEnabled = (value % 16 = 10)]
      [] address >= 8192 /\ address <= 16383 ->
           [c EXCEPT !.mbc.romBank =
                         IF value % 128 = 0 THEN 1 ELSE value % 128]
      [] address >= 16384 /\ address <= 24575 ->
           [c EXCEPT !.mbc.ramBank = value]
      [] OTHER -> c

\* Cartridge.readROMBank0(address)
readROMBank0(c, address) ==
    CASE c.mbc.kind = "MBC1" -> mbc1ReadROMBank0(c, address)
      [] c.mbc.kind = "MBC3" -> romAt(c.rom, address)
      [] OTHER -> noMbcReadROMBank0(c, address)

\* Cartridge.readROMBank1(address)
readROMBank1(c, address) ==
    CASE c.mbc.kind = "MBC1" -> mbc1ReadROMBank1(c, address)
      [] c.mbc.kind = "MBC3" -> mbc3ReadROMBank1(c, address)
      [] OTHER -> noMbcReadROMBank1(c, address)

\* Cartridge.readRAM(address)
readRAM(c, address) ==
    CASE c.mbc.kind = "MBC1" -> mbc1ReadRAM(c, address)
      [] c.mbc.kind = "MBC3" -> mbc3ReadRAM(c, address)
      [] OTHER -> noMbcReadRAM(c, address)

\* Cartridge.writeRAM(address, value)
writeRAM(c, address, value) ==
    CASE c.mbc.kind = "MBC1" -> mbc1WriteRAM(c, address, value)
      [] c.mbc.kind = "MBC3" -> mbc3WriteRAM(c, address, value)
      [] OTHER -> noMbcWriteRAM(c, address, value)

\* Cartridge.writeControl(address, value)
writeControl(c, address, value) ==
    CASE c.mbc.kind = "MBC1" -> mbc1WriteControl(c, address, value)
      [] c.mbc.kind = "MBC3" -> mbc3WriteControl(c, address, value)
      [] OTHER -> c

(***************************************************************************)
(* MMU (core/memory/MMU.ts).  A memory value m is the record of the bus's  *)
(* arrays, its cartridge and its timer:                                    *)
(* [io, ie, vram, wram, oam, hram, cartridge, timer].                      *)
(***************************************************************************)
\* initializeIO(): the register file after the boot ROM
\* P1=0xCF SC=0x7E DIV=0xAB TAC=0xF8 IF=0xE1 LCDC=0x91 STAT=0x85 BGP=0xFC
initializeIO ==
    (0 :> 207) @@ (2 :> 126) @@ (4 :> 171) @@ (7 :> 248) @@ (15 :> 225)
    @@ (64 :> 145) @@ (65 :> 133) @@ (71 :> 252)

\* the bus as constructed, with the timer that setTimer connects to it
NewMMU ==
    [io |-> initializeIO, ie |-> 0, vram |-> Zeroes, wram |-> Zeroes,
     oam |-> Zeroes, hram |-> Zeroes, cartridge |-> <<>>,
     timer |-> [divCounter |-> 0, timaCounter |-> 0]]

\* the bus of the current state
Mem ==
    [io |-> io, ie |-> interruptEnable, vram |-> vram, wram |-> wram,
     oam |-> oam, hram |-> hram, cartridge |-> cartridge,
     timer |-> [divCounter |-> divCounter, timaCounter |-> timaCounter]]

\* loadCartridge(cartridge)
loadCartridge(m, c) == [m EXCEPT !.cartridge = <<c>>]

\* getIO(offset)
getIO(m, offset) == Get(m.io, offset % 128)

\* setIO(offset, value)
setIO(m, offset, value) == [m EXCEPT !.io = Store(@, offset % 128, value % 256)]

\* getInterruptFlag()
getInterruptFlag(m) == Get(m.io, 15)

\* setInterruptFlag(value)
setInterruptFlag(m, value) == [m EXCEPT !.io = Store(@, 15, value % 256)]

\* readIO(address): every register reads back its stored byte
readIO(m, address) == Get(m.io, address - 65280)

\* read(address).  The cartridge windows (ROM 0x0000-0x7FFF, external RAM
\* 0xA000-0xBFFF) belong to the cartridge; without one they read 0xFF.
Read(m, address) ==
    LET addr == address % 65536
    IN  CASE addr < 16384 ->
               IF m.cartridge = <<>> THEN 255
               ELSE readROMBank0(m.cartridge[1], addr)
          [] addr >= 16384 /\ addr < 32768 ->
               IF m.cartridge = <<>> THEN 255
               ELSE readROMBank1(m.cartridge[1], addr - 16384)
          [] addr >= 32768 /\ addr < 40960 -> Get(m.vram, addr - 32768)
          [] addr >= 40960 /\ addr < 49152 ->
               IF m.cartridge = <<>> THEN 255
               ELSE readRAM(m.cartridge[1], addr - 40960)
          [] addr >= 49152 /\ addr < 57344 -> Get(m.wram, addr - 49152)
          [] addr >= 57344 /\ addr < 65024 -> Get(m.wram, addr - 57344)
          [] addr >= 65024 /\ addr < 65184 -> Get(m.oam, addr - 65024)
          [] addr >= 65184 /\ addr < 65280 -> 255
          [] addr >= 65280 /\ addr < 65408 -> readIO(m, addr)
          [] addr >= 65408 /\ addr < 65535 -> Get(m.hram, addr - 65408)
          [] OTHER -> m.ie

\* timer.handleRegisterWrite(address, value), called by writeIO for DIV, TIMA
\* and TAC.  The method is not among the sources; it is taken from the
\* documented behaviour of the bus hooks: a write to DIV zeroes DIV and the
\* timer's DIV accumulator, a write to TIMA or TAC sets the register.
handleRegisterWrite(m, address, value) ==
    CASE address = 65284 -> setIO([m EXCEPT !.timer.divCounter = 0], 4, 0)
      [] address = 65285 -> setIO(m, 5, value)
      [] address = 65287 -> setIO(m, 7, value)
      [] OTHER -> m

\* writeIO with the timer's registers stored like any other register
writeIOStoresTimerRegisters(m, address, value) ==
    LET offset == address - 65280
    IN  CASE address = 65348 -> m
          [] OTHER -> [m EXCEPT !.io = Store(@, offset, value)]

\* writeIO(address, value)
writeIO(m, address, value) ==
    LET offset == address - 65280
    IN  CASE address \in {65284, 65285, 65287} ->      \* 0xFF04 0xFF05 0xFF07
               handleRegisterWrite(m, address, value)
          [] address = 65348 -> m                       \* 0xFF44 LY: read-only
          [] address = 65350 ->                         \* 0xFF46 DMA
               [m EXCEPT !.io = Store(@, offset, value)]
          [] OTHER -> [m EXCEPT !.io = Store(@, offset, value)]

\* write(address, value) with writes to echo RAM dropped
WriteEchoDropped(m, address, value) ==
    LET addr == address % 65536
        val == value % 256
    IN  CASE addr < 32768 ->
               IF m.cartridge = <<>> THEN m
               ELSE [m EXCEPT !.cartridge =
                                  <<writeControl(m.cartridge[1], addr, val)>>]
          [] addr >= 32768 /\ addr < 40960 ->
               [m EXCEPT !.vram = Store(@, addr - 32768, val)]
          [] addr >= 40960 /\ addr < 49152 ->
               IF m.cartridge = <<>> THEN m
               ELSE [m EXCEPT !.cartridge =
                                  <<writeRAM(m.cartridge[1], addr - 40960, val)>>]
          [] addr >= 49152 /\ addr < 57344 ->
               [m EXCEPT !.wram = Store(@, addr - 49152, val)]
          [] addr >= 57344 /\ addr < 65024 -> m
          [] addr >= 65024 /\ addr < 65184 ->
               [m EXCEPT !.oam = Store(@, addr - 65024, val)]
          [] addr >= 65184 /\ addr < 65280 -> m
          [] addr >= 65280 /\ addr < 65408 -> writeIO(m, addr, val)
          [] addr >= 65408 /\ addr < 65535 ->
               [m EXCEPT !.hram = Store(@, addr - 65408, val)]
          [] OTHER -> [m EXCEPT !.ie = val]

\* write(address, value)
Write(m, address, value) ==
    LET addr == address % 65536
        val == value % 256
    IN  CASE addr < 32768 ->
               IF m.cartridge = <<>> THEN m
               ELSE [m EXCEPT !.cartridge =
                                  <<writeControl(m.cartridge[1], addr, val)>>]
          [] addr >= 32768 /\ addr < 40960 ->
               [m EXCEPT !.vram = Store(@, addr - 32768, val)]
          [] addr >= 40960 /\ addr < 49152 ->
               IF m.cartridge = <<>> THEN m
               ELSE [m EXCEPT !.cartridge =
                                  <<writeRAM(m.cartridge[1], addr - 40960, val)>>]
          [] addr >= 49152 /\ addr < 57344 ->
               [m EXCEPT !.wram = Store(@, addr - 49152, val)]
          [] addr >= 57344 /\ addr < 65024 ->
               [m EXCEPT !.wram = Store(@, addr - 57344, val)]
          [] addr >= 65024 /\ addr < 65184 ->
               [m EXCEPT !.oam = Store(@, addr - 65024, val)]
          [] addr >= 65184 /\ addr < 65280 -> m
          [] addr >= 65280 /\ addr < 65408 -> writeIO(m, addr, val)
          [] addr >= 65408 /\ addr < 65535 ->
               [m EXCEPT !.hram = Store(@, addr - 65408, val)]
          [] OTHER -> [m EXCEPT !.ie = val]

\* the state's bus becomes m
SetMem(m) ==
    /\ io' = m.io
    /\ interruptEnable' = m.ie
    /\ vram' = m.vram
    /\ wram' = m.wram
    /\ oam' = m.oam
    /\ hram' = m.hram
    /\ cartridge' = m.cartridge
    /\ divCounter' = m.timer.divCounter
    /\ timaCounter' = m.timer.timaCounter

(***************************************************************************)
(* CPU (core/cpu/CPU.ts, core/cpu/instructions.ts).  A machine value s is  *)
(* the record [pc, sp, ime, imeScheduled, halted, m] of the CPU's fields   *)
(* and the bus it holds.                                                   *)
(***************************************************************************)
\* the machine of the current state
Machine ==
    [pc |-> pc, sp |-> sp, ime |-> ime, imeScheduled |-> imeScheduled,
     halted |-> halted, m |-> Mem]

\* pushStack storing the low byte at sp-1 and the high byte at sp-2
pushStackLowFirst(s, value) ==
    LET sp1 == to16Bit(s.sp - 1)
        m1 == Write(s.m, sp1, value % 256)
        sp2 == to16Bit(sp1 - 1)
        m2 == Write(m1, sp2, (value \div 256) % 256)
    IN  [s EXCEPT !.sp = sp2, !.m = m2]

\* pushStack(value): high byte at sp-1, low byte at sp-2
pushStack(s, value) ==
    LET sp1 == to16Bit(s.sp - 1)
        m1 == Write(s.m, sp1, (value \div 256) % 256)
        sp2 == to16Bit(sp1 - 1)
        m2 == Write(m1, sp2, value % 256)
    IN  [s EXCEPT !.sp = sp2, !.m = m2]

\* popStack(): the word read, low byte first
popValue(s) == Read(s.m, to16Bit(s.sp + 1)) * 256 + Read(s.m, s.sp)

\* popStack(): the machine afterwards
popStack(s) == [s EXCEPT !.sp = to16Bit(to16Bit(s.sp + 1) + 1)]

\* the table of handleInterrupts, in priority order:
\* VBlank 0x40, LCD STAT 0x48, Timer 0x50, Serial 0x58, Joypad 0x60
interrupts ==
    << [bit |-> 0, address |-> 64], [bit |-> 1, address |-> 72],
       [bit |-> 2, address |-> 80], [bit |-> 3, address |-> 88],
       [bit |-> 4, address |-> 96] >>

\* FirstTriggered with the table walked from its last entry
FirstTriggeredFromLast(triggered) ==
    LET hits == {k \in 1..Len(interrupts) :
                    getBit(triggered, interrupts[k].bit) = 1}
    IN  IF hits = {} THEN 0 ELSE CHOOSE k \in hits : \A j \in hits : k >= j

\* the for loop of handleInterrupts: the index of the first table entry whose
\* bit is set in triggered, 0 when the loop falls through
FirstTriggered(triggered) ==
    LET hits == {k \in 1..Len(interrupts) :
                    getBit(triggered, interrupts[k].bit) = 1}
    IN  IF hits = {} THEN 0 ELSE CHOOSE k \in hits : \A j \in hits : k <= j

\* handleInterrupts(): the machine afterwards and the cycles returned
handleInterrupts(s) ==
    IF ~s.ime THEN [s |-> s, cycles |-> 0]
    ELSE
        LET interruptFlag == getInterruptFlag(s.m)
            triggered == BitAnd(s.m.ie, interruptFlag)
            k == FirstTriggered(triggered)
        IN  IF triggered = 0 \/ k = 0 THEN [s |-> s, cycles |-> 0]
            ELSE
                LET s1 == [s EXCEPT
                              !.ime = FALSE,
                              !.m = setInterruptFlag(@,
                                        clearBit(interruptFlag, interrupts[k].bit))]
                    s2 == pushStack(s1, s1.pc)
                IN  [s |-> [s2 EXCEPT !.pc = interrupts[k].address], cycles |-> 20]

\* the opcodes of the model: NOP 0x00, HALT 0x76, RETI 0xD9,
\* LD (FF00+C),A 0xE2, DI 0xF3, EI 0xFB
Opcodes == {0, 118, 217, 226, 243, 251}

\* the eleven opcodes the instruction table defines as ILLEGAL_xx:
\* 0xD3 0xDB 0xDD 0xE3 0xE4 0xEB 0xEC 0xED 0xF4 0xFC 0xFD
IllegalOpcodes == {211, 219, 221, 227, 228, 235, 236, 237, 244, 252, 253}

\* the mnemonic recorded for an opcode
Mnemonic(opcode) ==
    CASE opcode = 0 -> "NOP"
      [] opcode = 128 -> "ADD A, B"
      [] opcode = 132 -> "ADD A, H"
      [] opcode = 134 -> "ADD A, (HL)"
      [] opcode = 135 -> "ADD A, A"
      [] opcode = 198 -> "ADD A, n"
      [] opcode = 136 -> "ADC A, B"
      [] opcode = 142 -> "ADC A, (HL)"
      [] opcode = 143 -> "ADC A, A"
      [] opcode = 206 -> "ADC A, n"
      [] opcode = 211 -> "ILLEGAL_D3"
      [] opcode = 219 -> "ILLEGAL_DB"
      [] opcode = 221 -> "ILLEGAL_DD"
      [] opcode = 227 -> "ILLEGAL_E3"
      [] opcode = 228 -> "ILLEGAL_E4"
      [] opcode = 235 -> "ILLEGAL_EB"
      [] opcode = 236 -> "ILLEGAL_EC"
      [] opcode = 237 -> "ILLEGAL_ED"
      [] opcode = 244 -> "ILLEGAL_F4"
      [] opcode = 252 -> "ILLEGAL_FC"
      [] opcode = 253 -> "ILLEGAL_FD"
      [] opcode = 118 -> "HALT"
      [] opcode = 217 -> "RETI"
      [] opcode = 226 -> "LDIO"
      [] opcode = 243 -> "DI"
      [] opcode = 251 -> "EI"

\* DI that cancels a scheduled enable and leaves IME as it is
ExecDIKeepsIME(s) == [s EXCEPT !.imeScheduled = FALSE]

\* 0xF3: DI
ExecDI(s) == [s EXCEPT !.ime = FALSE]

\* 0xFB: EI
ExecEI(s) == [s EXCEPT !.imeScheduled = TRUE]

\* 0x76: HALT
ExecHALT(s) == [s EXCEPT !.halted = TRUE]

\* RETI that returns and leaves IME as it is
ExecRETIKeepsIME(s) == [popStack(s) EXCEPT !.pc = popValue(s)]

\* 0xD9: RETI
ExecRETI(s) == [popStack(s) EXCEPT !.pc = popValue(s), !.ime = TRUE]

\* 0xE2: LD (FF00+C),A with the registers' contents c and a
ExecLDIO(s, c, a) == [s EXCEPT !.m = Write(@, 65280 + c, a)]

\* instructions[opcode].handler(cpu): the machine afterwards and the cycles
\* returned.  The ILLEGAL_xx handlers throw an Error and return nothing:
\* cycles -1 stands for the exception that leaves step().
handler(opcode, s, c, a) ==
    CASE opcode = 0 -> [s |-> s, cycles |-> 4]
      [] opcode \in IllegalOpcodes -> [s |-> s, cycles |-> -1]
      [] opcode = 118 -> [s |-> ExecHALT(s), cycles |-> 4]
      [] opcode = 217 -> [s |-> ExecRETI(s), cycles |-> 16]
      [] opcode = 226 -> [s |-> ExecLDIO(s, c, a), cycles |-> 8]
      [] opcode = 243 -> [s |-> ExecDI(s), cycles |-> 4]
      [] opcode = 251 -> [s |-> ExecEI(s), cycles |-> 4]

\* the head of step(): a scheduled enable takes effect
applyScheduled(s) ==
    IF s.imeScheduled THEN [s EXCEPT !.ime = TRUE, !.imeScheduled = FALSE] ELSE s

\* step() when the byte fetched at pc is opcode and registers C and A hold c
\* and a: the machine afterwards, the cycles returned and what the step did
step(s, opcode, c, a) ==
    LET s0 == applyScheduled(s)
        hi == handleInterrupts(s0)
    IN  IF hi.cycles > 0
        THEN [s |-> [hi.s EXCEPT !.halted = FALSE], cycles |-> hi.cycles,
              kind |-> "dispatch"]
        ELSE IF hi.s.halted
        THEN [s |-> hi.s, cycles |-> 4, kind |-> "stall"]
        ELSE
            LET fetched == [hi.s EXCEPT !.pc = to16Bit(@ + 1)]  \* readPC()
                r == handler(opcode, fetched, c, a)
            IN  [s |-> r.s, cycles |-> r.cycles, kind |-> Mnemonic(opcode)]

\* the state's CPU and bus become s
SetMachine(s) ==
    /\ pc' = s.pc
    /\ sp' = s.sp
    /\ ime' = s.ime
    /\ imeScheduled' = s.imeScheduled
    /\ halted' = s.halted
    /\ SetMem(s.m)

(***************************************************************************)
(* Registers (core/cpu/registers.ts), the flag helpers of CPU.ts and the   *)
(* 8-bit additions of the instruction table.  A register file r is the     *)
(* record [a, f, b, c, d, e, h, l]; the operand of an addition (the other   *)
(* register, the byte at HL, the immediate byte) is given as value.        *)
(***************************************************************************)
FLAG_Z == 7
FLAG_N == 6
FLAG_H == 5
FLAG_C == 4

\* the register file after construction and after reset()
NewRegisters ==
    [a |-> 1, f |-> 176, b |-> 0, c |-> 19, d |-> 0, e |-> 216, h |-> 1,
     l |-> 77]

\* getFlag(bit)
getFlag(r, bit) == getBit(r.f, bit) = 1

\* setFlag(bit, value)
setFlag(r, bit, value) ==
    [r EXCEPT !.f = IF value THEN setBit(@, bit) ELSE clearBit(@, bit)]

\* updateZeroFlag(value)
updateZeroFlag(r, value) == setFlag(r, FLAG_Z, value % 256 = 0)

\* updateSubtractFlag(value)
updateSubtractFlag(r, value) == setFlag(r, FLAG_N, value)

\* updateHalfCarryFlag(a, b, isSubtract)
updateHalfCarryFlag(r, a, b, isSubtract) ==
    IF isSubtract
    THEN setFlag(r, FLAG_H, (a % 16) < (b % 16))
    ELSE setFlag(r, FLAG_H, (a % 16) + (b % 16) > 15)

\* updateCarryFlag(value)
updateCarryFlag(r, value) == setFlag(r, FLAG_C, value > 255)

\* updateCarryFlagAdd(a, b), called by the ADD handlers of 0x80-0x83, 0x86,
\* 0x87 and 0xC6.  The method is not among the sources; it is taken from the
\* documented carry of an 8-bit addition, sum > 0xFF.
updateCarryFlagAdd(r, a, b) == setFlag(r, FLAG_C, a + b > 255)

\* 0x80-0x83, 0x86, 0x87, 0xC6: ADD A, r / (HL) / A / n
ExecADD(r, value) ==
    LET result == r.a + value
        r1 == updateHalfCarryFlag(r, r.a, value, FALSE)
        r2 == updateCarryFlagAdd(r1, r.a, value)
        r3 == [r2 EXCEPT !.a = to8Bit(result)]
        r4 == updateZeroFlag(r3, r3.a)
    IN  updateSubtractFlag(r4, FALSE)

\* 0x84, 0x85: ADD A, H / L
ExecADDHL(r, value) ==
    LET result == r.a + value
        r1 == [r EXCEPT !.a = to8Bit(result)]
        r2 == updateZeroFlag(r1, r1.a)
        r3 == updateSubtractFlag(r2, FALSE)
        r4 == updateHalfCarryFlag(r3, r.a, value, FALSE)
    IN  updateCarryFlag(r4, result)

\* 0x88-0x8F: ADC A, r / (HL) / A
ExecADC(r, value) ==
    LET carry == IF getFlag(r, FLAG_C) THEN 1 ELSE 0
        result == r.a + value + carry
        r1 == [r EXCEPT !.a = to8Bit(result)]
        r2 == updateZeroFlag(r1, r1.a)
        r3 == updateSubtractFlag(r2, FALSE)
        r4 == setFlag(r3, FLAG_H, (r.a % 16) + (value % 16) + carry > 15)
    IN  updateCarryFlag(r4, result)

\* 0xCE: ADC A, n
ExecADCn(r, value) ==
    LET carry == IF getFlag(r, FLAG_C) THEN 1 ELSE 0
        result == r.a + value + carry
        r1 == updateHalfCarryFlag(r, r.a, value + carry, FALSE)
        r2 == setFlag(r1, FLAG_C, result > 255)
        r3 == [r2 EXCEPT !.a = to8Bit(result)]
        r4 == updateZeroFlag(r3, r3.a)
    IN  updateSubtractFlag(r4, FALSE)

\* the additions taken from the table: one opcode of each handler text
\* 0x80 0x84 0x86 0x87 0xC6 0x88 0x8E 0x8F 0xCE
AluOpcodes == {128, 132, 134, 135, 198, 136, 142, 143, 206}

\* instructions[opcode].handler(cpu) for an addition whose operand holds
\* value: the register file afterwards, the cycles, and the bytes fetched
aluHandler(opcode, r, value) ==
    CASE opcode = 128 -> [r |-> ExecADD(r, value), cycles |-> 4, fetched |-> 0]
      [] opcode = 132 -> [r |-> ExecADDHL(r, value), cycles |-> 4, fetched |-> 0]
      [] opcode = 134 -> [r |-> ExecADD(r, value), cycles |-> 8, fetched |-> 0]
      [] opcode = 135 -> [r |-> ExecADD(r, r.a), cycles |-> 4, fetched |-> 0]
      [] opcode = 198 -> [r |-> ExecADD(r, value), cycles |-> 8, fetched |-> 1]
      [] opcode = 136 -> [r |-> ExecADC(r, value), cycles |-> 4, fetched |-> 0]
      [] opcode = 142 -> [r |-> ExecADC(r, value), cycles |-> 8, fetched |-> 0]
      [] opcode = 143 -> [r |-> ExecADC(r, r.a), cycles |-> 4, fetched |-> 0]
      [] opcode = 206 -> [r |-> ExecADCn(r, value), cycles |-> 8, fetched |-> 1]

(***************************************************************************)
(* The instruction table's branches, stack instructions and the loads the  *)
(* programs below need, and step() fetching from the bus.  A CPU value x   *)
(* is the record [s, r] of the machine and the register file.              *)
(***************************************************************************)
\* toSigned8(value)
toSigned8(value) == IF value > 127 THEN value - 256 ELSE value

\* readPC(): the byte read; the machine afterwards is advance(s, 1)
readPC(s) == Read(s.m, s.pc)

\* read16PC(): the word read; the machine afterwards is advance(s, 2)
read16PC(s) == Read(s.m, to16Bit(s.pc + 1)) * 256 + Read(s.m, s.pc)

\* pc after n calls of readPC()
advance(s, n) == [s EXCEPT !.pc = to16Bit(@ + n)]

\* getBC(), getDE(), getHL(), getAF(): combineBytes(low, high)
getPair(r, rr) ==
    CASE rr = "BC" -> r.b * 256 + r.c
      [] rr = "DE" -> r.d * 256 + r.e
      [] rr = "HL" -> r.h * 256 + r.l
      [] rr = "AF" -> r.a * 256 + r.f

\* setAF(value) storing the low byte in F as it is
setPairUnmasked(r, rr, value) ==
    LET high == (value \div 256) % 256
        low == value % 256
    IN  CASE rr = "BC" -> [r EXCEPT !.b = high, !.c = low]
          [] rr = "DE" -> [r EXCEPT !.d = high, !.e = low]
          [] rr = "HL" -> [r EXCEPT !.h = high, !.l = low]
          [] rr = "AF" -> [r EXCEPT !.a = high, !.f = low]

\* setBC(value), setDE(value), setHL(value), and setAF(value), which keeps
\* only the upper four bits of the low byte in F
setPair(r, rr, value) ==
    LET high == (value \div 256) % 256
        low == value % 256
    IN  CASE rr = "BC" -> [r EXCEPT !.b = high, !.c = low]
          [] rr = "DE" -> [r EXCEPT !.d = high, !.e = low]
          [] rr = "HL" -> [r EXCEPT !.h = high, !.l = low]
          [] rr = "AF" -> [r EXCEPT !.a = high, !.f = BitAnd(low, 240)]

\* the condition of a conditional branch: NZ, Z, NC, C
condition(r, cc) ==
    CASE cc = "NZ" -> ~getFlag(r, FLAG_Z)
      [] cc = "Z" -> getFlag(r, FLAG_Z)
      [] cc = "NC" -> ~getFlag(r, FLAG_C)
      [] cc = "C" -> getFlag(r, FLAG_C)

\* JR cc, n returning 12 cycles whether the branch is taken or not
ExecJRccFlat(x, cc) ==
    LET offset == toSigned8(readPC(x.s))
        s1 == advance(x.s, 1)
    IN  IF condition(x.r, cc)
        THEN [s |-> [s1 EXCEPT !.pc = to16Bit(@ + offset)], r |-> x.r,
              cycles |-> 12]
        ELSE [s |-> s1, r |-> x.r, cycles |-> 12]

\* 0x20, 0x28, 0x30, 0x38: JR cc, n
ExecJRcc(x, cc) ==
    LET offset == toSigned8(readPC(x.s))
        s1 == advance(x.s, 1)
    IN  IF condition(x.r, cc)
        THEN [s |-> [s1 EXCEPT !.pc = to16Bit(@ + offset)], r |-> x.r,
              cycles |-> 12]
        ELSE [s |-> s1, r |-> x.r, cycles |-> 8]

\* 0xC2, 0xCA, 0xD2, 0xDA: JP cc, nn
ExecJPcc(x, cc) ==
    LET address == read16PC(x.s)
        s1 == advance(x.s, 2)
    IN  IF condition(x.r, cc)
        THEN [s |-> [s1 EXCEPT !.pc = address], r |-> x.r, cycles |-> 16]
        ELSE [s |-> s1, r |-> x.r, cycles |-> 12]

\* 0xC4, 0xCC, 0xD4, 0xDC: CALL cc, nn
ExecCALLcc(x, cc) ==
    LET address == read16PC(x.s)
        s1 == advance(x.s, 2)
    IN  IF condition(x.r, cc)
        THEN [s |-> [pushStack(s1, s1.pc) EXCEPT !.pc = address], r |-> x.r,
              cycles |-> 24]
        ELSE [s |-> s1, r |-> x.r, cycles |-> 12]

\* 0xC0, 0xC8, 0xD0, 0xD8: RET cc
ExecRETcc(x, cc) ==
    IF condition(x.r, cc)
    THEN [s |-> [popStack(x.s) EXCEPT !.pc = popValue(x.s)], r |-> x.r,
          cycles |-> 20]
    ELSE [s |-> x.s, r |-> x.r, cycles |-> 8]

\* 0xC5, 0xD5, 0xE5, 0xF5: PUSH rr
ExecPUSH(x, rr) ==
    [s |-> pushStack(x.s, getPair(x.r, rr)), r |-> x.r, cycles |-> 16]

\* 0xC1, 0xD1, 0xE1, 0xF1: POP rr
ExecPOP(x, rr) ==
    [s |-> popStack(x.s), r |-> setPair(x.r, rr, popValue(x.s)), cycles |-> 12]

\* 0x06: LD B, n
ExecLDBn(x) ==
    [s |-> advance(x.s, 1), r |-> [x.r EXCEPT !.b = readPC(x.s)], cycles |-> 8]

\* 0x05: DEC B
ExecDECB(x) ==
    LET r1 == [x.r EXCEPT !.b = to8Bit(@ - 1)]
        r2 == updateZeroFlag(r1, r1.b)
        r3 == updateSubtractFlag(r2, TRUE)
    IN  [s |-> x.s, r |-> updateHalfCarryFlag(r3, r1.b + 1, 1, TRUE),
         cycles |-> 4]

\* the conditional branches: JR cc 0x20 0x28 0x30 0x38, RET cc 0xC0 0xC8 0xD0
\* 0xD8, JP cc 0xC2 0xCA 0xD2 0xDA, CALL cc 0xC4 0xCC 0xD4 0xDC
BranchOpcodes ==
    {32, 40, 48, 56, 192, 200, 208, 216, 194, 202, 210, 218, 196, 204, 212, 220}

\* PUSH rr 0xC5 0xD5 0xE5 0xF5 and POP rr 0xC1 0xD1 0xE1 0xF1
StackOpcodes == {197, 213, 229, 245, 193, 209, 225, 241}

\* the condition named by the mnemonic of a conditional branch
ccOf(opcode) ==
    CASE opcode \in {32, 192, 194, 196} -> "NZ"
      [] opcode \in {40, 200, 202, 204} -> "Z"
      [] opcode \in {48, 208, 210, 212} -> "NC"
      [] opcode \in {56, 216, 218, 220} -> "C"

\* the register pair named by the mnemonic of a PUSH or POP
rrOf(opcode) ==
    CASE opcode \in {197, 193} -> "BC"
      [] opcode \in {213, 209} -> "DE"
      [] opcode \in {229, 225} -> "HL"
      [] opcode \in {245, 241} -> "AF"

\* instructions[opcode].handler(cpu) for the opcodes above, 0x00 NOP, 0x05
\* and 0x06
tableHandler(opcode, x) ==
    CASE opcode = 0 -> [s |-> x.s, r |-> x.r, cycles |-> 4]
      [] opcode = 5 -> ExecDECB(x)
      [] opcode = 6 -> ExecLDBn(x)
      [] opcode \in {32, 40, 48, 56} -> ExecJRcc(x, ccOf(opcode))
      [] opcode \in {192, 200, 208, 216} -> ExecRETcc(x, ccOf(opcode))
      [] opcode \in {194, 202, 210, 218} -> ExecJPcc(x, ccOf(opcode))
      [] opcode \in {196, 204, 212, 220} -> ExecCALLcc(x, ccOf(opcode))
      [] opcode \in {197, 213, 229, 245} -> ExecPUSH(x, rrOf(opcode))
      [] opcode \in {193, 209, 225, 241} -> ExecPOP(x, rrOf(opcode))

\* step() with the opcode fetched from the bus at pc: the CPU afterwards, the
\* cycles returned and the opcode executed (-1 when none was fetched)
fetchStep(x) ==
    LET s0 == applyScheduled(x.s)
        hi == handleInterrupts(s0)
    IN  IF hi.cycles > 0
        THEN [s |-> [hi.s EXCEPT !.halted = FALSE], r |-> x.r,
              cycles |-> hi.cycles, opcode |-> -1]
        ELSE IF hi.s.halted
        THEN [s |-> hi.s, r |-> x.r, cycles |-> 4, opcode |-> -1]
        ELSE
            LET opcode == readPC(hi.s)
                t == tableHandler(opcode, [s |-> advance(hi.s, 1), r |-> x.r])
            IN  [s |-> t.s, r |-> t.r, cycles |-> t.cycles, opcode |-> opcode]

(***************************************************************************)
(* What the handlers of the instruction tables return.  Every handler ends *)
(* in return statements with literal cycle counts; which of them a         *)
(* conditional handler reaches depends on the flags.                       *)
(***************************************************************************)
\* the values of the return statements of instructions[opcode].handler, for
\* the 244 opcodes whose handler returns (0xCB is taken by step() itself and
\* the eleven ILLEGAL_xx handlers throw)
handlerReturns(opcode) ==
    CASE opcode \in
           {0, 4, 5, 7, 12, 13, 15, 16, 20, 21, 23, 28, 29, 31, 36, 37, 39,
           44, 45, 47, 55, 60, 61, 63, 64, 65, 66, 67, 68, 69, 71, 72, 73, 74,
           75, 76, 77, 79, 80, 81, 82, 83, 84, 85, 87, 88, 89, 90, 91, 92, 93,
           95, 96, 97, 98, 99, 100, 101, 103, 104, 105, 106, 107, 108, 109,
           111, 118, 120, 121, 122, 123, 124, 125, 127, 128, 129, 130, 131,
           132, 133, 135, 136, 137, 138, 139, 140, 141, 143, 144, 145, 146,
           147, 148, 149, 151, 152, 153, 154, 155, 156, 157, 159, 160, 161,
           162, 163, 164, 165, 167, 168, 169, 170, 171, 172, 173, 175, 176,
           177, 178, 179, 180, 181, 183, 184, 185, 186, 187, 188, 189, 191,
           233, 243, 251}
           -> {4}
      [] opcode \in
           {2, 3, 6, 9, 10, 11, 14, 18, 19, 22, 25, 26, 27, 30, 34, 35, 38,
           41, 42, 43, 46, 50, 51, 57, 58, 59, 62, 70, 78, 86, 94, 102, 110,
           112, 113, 114, 115, 116, 117, 119, 126, 134, 142, 150, 158, 166,
           174, 182, 190, 198, 206, 214, 222, 226, 230, 238, 242, 246, 249,
           254}
           -> {8}
      [] opcode \in
           {1, 17, 24, 33, 49, 52, 53, 54, 193, 209, 224, 225, 240, 241, 248}
           -> {12}
      [] opcode \in
           {195, 197, 199, 201, 207, 213, 215, 217, 223, 229, 231, 232, 234,
           239, 245, 247, 250, 255}
           -> {16}
      [] opcode \in
           {8}
           -> {20}
      [] opcode \in
           {205}
           -> {24}
      [] opcode \in
           {32, 40, 48, 56}
           -> {8, 12}
      [] opcode \in
           {192, 200, 208, 216}
           -> {8, 20}
      [] opcode \in
           {194, 202, 210, 218}
           -> {12, 16}
      [] opcode \in
           {196, 204, 212, 220}
           -> {12, 24}

\* cbInstructions[cbOpcode].handler with BIT b, (HL) returning 10
cbReturnsBitTen(cbOpcode) ==
    IF cbOpcode % 8 = 6
    THEN IF cbOpcode >= 64 /\ cbOpcode < 128 THEN {10} ELSE {16}
    ELSE {8}

\* the value cbInstructions[cbOpcode].handler returns: r === 6 ? 16 : 8 for
\* the rotates, shifts, SWAP, RES and SET, r === 6 ? 12 : 8 for BIT, where r
\* is the low three bits of the opcode
cbReturns(cbOpcode) ==
    IF cbOpcode % 8 = 6
    THEN IF cbOpcode >= 64 /\ cbOpcode < 128 THEN {12} ELSE {16}
    ELSE {8}

(***************************************************************************)
(* PPU (core/ppu/PPU.ts, core/ppu/constants.ts).  A PPU value p is the     *)
(* record [mode, cycles, line, lycTriggered, frameReady,                    *)
(* windowLineCounter, m].  The pixel                                        *)
(* output of renderScanline (framebuffer, colour indices, window line      *)
(* counter) is not read by the mode machine and is left out of p.          *)
(***************************************************************************)
OAM_SCAN_CYCLES == 80
DRAWING_CYCLES == 172
HBLANK_CYCLES == 204
SCREEN_HEIGHT == 144
SCREEN_WIDTH == 160
OAM_BASE == 65024
MAX_SPRITES_PER_LINE == 10

\* enum LCDMode
HBLANK == 0
VBLANK == 1
OAM_SCAN == 2
DRAWING == 3

\* the PPU of the current state
Ppu ==
    [mode |-> mode, cycles |-> cycles, line |-> line,
     lycTriggered |-> lycTriggered, frameReady |-> frameReady,
     windowLineCounter |-> windowLineCounter, m |-> Mem]

\* PPU.requestInterrupt raising the STAT bit, 1, whatever is asked for
ppuRequestInterruptAsStat(p, interrupt) ==
    [p EXCEPT !.m = setInterruptFlag(@, setBit(getInterruptFlag(@), 1))]

\* PPU.requestInterrupt(interrupt)
ppuRequestInterrupt(p, interrupt) ==
    [p EXCEPT !.m = setInterruptFlag(@, setBit(getInterruptFlag(@), interrupt))]

\* setMode(mode) requesting the STAT interrupt for any enabled mode source
setModeAnySource(p, newMode) ==
    LET stat == (getIO(p.m, 65) - (getIO(p.m, 65) % 4)) + newMode
        p1 == [p EXCEPT !.mode = newMode, !.m = setIO(@, 65, stat)]
        requestStatInt ==
            \/ getBit(stat, 3) = 1
            \/ getBit(stat, 4) = 1
            \/ getBit(stat, 5) = 1
    IN  IF requestStatInt THEN ppuRequestInterrupt(p1, 1) ELSE p1

\* setMode(mode)
setMode(p, newMode) ==
    LET stat == (getIO(p.m, 65) - (getIO(p.m, 65) % 4)) + newMode
        p1 == [p EXCEPT !.mode = newMode, !.m = setIO(@, 65, stat)]
        requestStatInt ==
            \/ newMode = HBLANK /\ getBit(stat, 3) = 1
            \/ newMode = VBLANK /\ getBit(stat, 4) = 1
            \/ newMode = OAM_SCAN /\ getBit(stat, 5) = 1
    IN  IF requestStatInt THEN ppuRequestInterrupt(p1, 1) ELSE p1

\* checkLYCCoincidence() without its once-per-line latch
checkLYCCoincidenceUnlatched(p) ==
    LET lyc == getIO(p.m, 69)
        stat == getIO(p.m, 65)
    IN  IF p.line = lyc
        THEN
            LET stat1 == setBit(stat, 2)
                p1 == [p EXCEPT !.m = setIO(@, 65, stat1)]
            IN  IF getBit(stat1, 6) = 1
                THEN [ppuRequestInterrupt(p1, 1) EXCEPT !.lycTriggered = TRUE]
                ELSE p1
        ELSE [p EXCEPT !.m = setIO(@, 65, clearBit(stat, 2)),
                       !.lycTriggered = FALSE]

\* checkLYCCoincidence()
checkLYCCoincidence(p) ==
    LET lyc == getIO(p.m, 69)
        stat == getIO(p.m, 65)
    IN  IF p.line = lyc
        THEN
            LET stat1 == setBit(stat, 2)
                p1 == [p EXCEPT !.m = setIO(@, 65, stat1)]
            IN  IF ~p.lycTriggered /\ getBit(stat1, 6) = 1
                THEN [ppuRequestInterrupt(p1, 1) EXCEPT !.lycTriggered = TRUE]
                ELSE p1
        ELSE [p EXCEPT !.m = setIO(@, 65, clearBit(stat, 2)),
                       !.lycTriggered = FALSE]

\* the screen columns of the current scanline that renderWindow() writes a
\* window pixel to
windowColumns(p) ==
    LET lcdc == getIO(p.m, 64)
        wy == getIO(p.m, 74)
        wx == getIO(p.m, 75)
        windowX == wx - 7
    IN  IF getBit(lcdc, 5) = 0 THEN {}
        ELSE IF p.line < wy THEN {}
        ELSE {x \in 0..(SCREEN_WIDTH - 1) : ~(x < windowX)}

\* renderWindow(): of its work the window line counter is kept
renderWindow(p) ==
    IF windowColumns(p) # {}
    THEN [p EXCEPT !.windowLineCounter = @ + 1]
    ELSE p

\* renderScanline(): the background and the sprites change the framebuffer
\* only
renderScanline(p) ==
    IF getBit(getIO(p.m, 64), 0) = 1 THEN renderWindow(p) ELSE p

\* the colour index (0-3) of pixel (px, py) of the tile map at tileMapBase:
\* the tile fetch shared by renderBackground() and renderWindow()
tileColorIndex(p, tileMapBase, px, py) ==
    LET lcdc == getIO(p.m, 64)
        tileX == (px \div 8) % 32
        tileY == (py \div 8) % 32
        tileNum == Read(p.m, tileMapBase + tileY * 32 + tileX)
        tileDataAddress ==
            IF getBit(lcdc, 4) = 1 THEN 32768 + tileNum * 16
            ELSE 36864 + toSigned8(tileNum) * 16
        rowDataAddress == tileDataAddress + (py % 8) * 2
        byte1 == Read(p.m, rowDataAddress)
        byte2 == Read(p.m, rowDataAddress + 1)
        bitPosition == 7 - (px % 8)
    IN  getBit(byte2, bitPosition) * 2 + getBit(byte1, bitPosition)

\* bgColorIndices[line * 160 + x] as renderScanline() leaves it before the
\* sprites are drawn: 0 with the background off, the window's colour index
\* in the window's columns, the background's elsewhere
bgColorIndices(p, x) ==
    LET lcdc == getIO(p.m, 64)
    IN  IF getBit(lcdc, 0) = 0 THEN 0
        ELSE IF x \in windowColumns(p)
        THEN tileColorIndex(p, IF getBit(lcdc, 6) = 1 THEN 39936 ELSE 38912,
                            x - (getIO(p.m, 75) - 7), p.windowLineCounter)
        ELSE tileColorIndex(p, IF getBit(lcdc, 3) = 1 THEN 39936 ELSE 38912,
                            (x + getIO(p.m, 67)) % 256,
                            (p.line + getIO(p.m, 66)) % 256)

\* spriteHeight of renderSprites()
spriteHeight(p) == IF getBit(getIO(p.m, 64), 2) = 1 THEN 16 ELSE 8

\* the fields of OAM entry i as renderSprites() reads them
sprite(p, i) ==
    [y |-> Read(p.m, OAM_BASE + i * 4) - 16,
     x |-> Read(p.m, OAM_BASE + i * 4 + 1) - 8,
     tile |-> Read(p.m, OAM_BASE + i * 4 + 2),
     flags |-> Read(p.m, OAM_BASE + i * 4 + 3),
     oamIndex |-> i]

\* the scan of OAM from entry i on, spritesOnLine holding the indices
\* collected so far: it stops at limit entries
RECURSIVE scanOAM(_, _, _, _)
scanOAM(p, i, spritesOnLine, limit) ==
    IF i >= 40 THEN spritesOnLine
    ELSE IF p.line >= sprite(p, i).y /\ p.line < sprite(p, i).y + spriteHeight(p)
    THEN IF Len(spritesOnLine) + 1 >= limit
         THEN Append(spritesOnLine, i)
         ELSE scanOAM(p, i + 1, Append(spritesOnLine, i), limit)
    ELSE scanOAM(p, i + 1, spritesOnLine, limit)

\* the scan of OAM without the limit of ten sprites
spritesOnLineUnlimited(p) == scanOAM(p, 0, <<>>, 41)

\* spritesOnLine of renderSprites() after the scan of OAM
spritesOnLine(p) == scanOAM(p, 0, <<>>, MAX_SPRITES_PER_LINE)

\* the screen columns in which renderSprites() writes a pixel of OAM entry
\* i to the framebuffer
spritePixels(p, i) ==
    LET spr == sprite(p, i)
        flipY == getBit(spr.flags, 6) = 1
        flipX == getBit(spr.flags, 5) = 1
        row0 == IF flipY THEN (spriteHeight(p) - 1) - (p.line - spr.y)
                ELSE p.line - spr.y
        tileNum ==
            IF spriteHeight(p) = 16
            THEN (spr.tile - (spr.tile % 2)) + (IF row0 >= 8 THEN 1 ELSE 0)
            ELSE spr.tile
        spriteRow == IF spriteHeight(p) = 16 /\ row0 >= 8 THEN row0 - 8 ELSE row0
        tileDataAddress == 32768 + tileNum * 16 + spriteRow * 2
        byte1 == Read(p.m, tileDataAddress)
        byte2 == Read(p.m, tileDataAddress + 1)
        colorIndex(px) ==
            LET bitPosition == IF flipX THEN px ELSE 7 - px
            IN  getBit(byte2, bitPosition) * 2 + getBit(byte1, bitPosition)
    IN  {spr.x + px : px \in {q \in 0..7 :
            /\ ~(spr.x + q < 0 \/ spr.x + q >= SCREEN_WIDTH)
            /\ colorIndex(q) # 0
            /\ ~(getBit(spr.flags, 7) = 1 /\ bgColorIndices(p, spr.x + q) # 0)}}

\* renderSprites(): the framebuffer writes, each as <<OAM index, column>>.
\* The order in which the collected sprites are drawn decides which of two
\* writes to a column lasts, not which writes are made.
renderSprites(p) ==
    UNION {{<<spritesOnLine(p)[k], x>> : x \in spritePixels(p, spritesOnLine(p)[k])} :
              k \in 1..Len(spritesOnLine(p))}

\* one pass of the switch in step(): the PPU afterwards, or p itself when
\* the mode has not run out of cycles (stateChanged stays false)
transition(p) ==
    CASE p.mode = OAM_SCAN ->
           IF p.cycles >= OAM_SCAN_CYCLES
           THEN setMode([p EXCEPT !.cycles = @ - OAM_SCAN_CYCLES], DRAWING)
           ELSE p
      [] p.mode = DRAWING ->
           IF p.cycles >= DRAWING_CYCLES
           THEN setMode(renderScanline([p EXCEPT !.cycles = @ - DRAWING_CYCLES]),
                        HBLANK)
           ELSE p
      [] p.mode = HBLANK ->
           IF p.cycles >= HBLANK_CYCLES
           THEN
               LET p1 == [p EXCEPT !.cycles = @ - HBLANK_CYCLES, !.line = @ + 1]
               IN  IF p1.line >= SCREEN_HEIGHT
                   THEN [ppuRequestInterrupt(setMode(p1, VBLANK), 0)
                            EXCEPT !.frameReady = TRUE]
                   ELSE setMode(p1, OAM_SCAN)
           ELSE p
      [] p.mode = VBLANK ->
           IF p.cycles >= 456
           THEN
               LET p1 == [p EXCEPT !.cycles = @ - 456, !.line = @ + 1]
               IN  IF p1.line > 153
                   THEN setMode([p1 EXCEPT !.line = 0, !.windowLineCounter = 0,
                                           !.frameReady = FALSE],
                                OAM_SCAN)
                   ELSE p1
           ELSE p

\* stateChanged with each mode ending only once more than its cycles have
\* accumulated
stateChangedStrict(p) ==
    CASE p.mode = OAM_SCAN -> p.cycles > OAM_SCAN_CYCLES
      [] p.mode = DRAWING -> p.cycles > DRAWING_CYCLES
      [] p.mode = HBLANK -> p.cycles > HBLANK_CYCLES
      [] p.mode = VBLANK -> p.cycles > 456

\* whether one pass of the switch changes state
stateChanged(p) ==
    CASE p.mode = OAM_SCAN -> p.cycles >= OAM_SCAN_CYCLES
      [] p.mode = DRAWING -> p.cycles >= DRAWING_CYCLES
      [] p.mode = HBLANK -> p.cycles >= HBLANK_CYCLES
      [] p.mode = VBLANK -> p.cycles >= 456

\* the loop of step() as an if: at most one pass of the switch for each call
ppuLoopOnePass(p, maxIterations) ==
    IF ~(p.cycles > 0 /\ maxIterations > 0) THEN p
    ELSE transition(checkLYCCoincidence([p EXCEPT !.m = setIO(@, 68, p.line)]))

\* the while loop of step()
RECURSIVE ppuLoop(_, _)
ppuLoop(p, maxIterations) ==
    IF ~(p.cycles > 0 /\ maxIterations > 0) THEN p
    ELSE
        LET p1 == checkLYCCoincidence([p EXCEPT !.m = setIO(@, 68, p.line)])
        IN  IF stateChanged(p1)
            THEN ppuLoop(transition(p1), maxIterations - 1)
            ELSE p1

\* the passes the while loop of step() makes before it ends
RECURSIVE ppuPasses(_, _)
ppuPasses(p, maxIterations) ==
    IF ~(p.cycles > 0 /\ maxIterations > 0) THEN 0
    ELSE
        LET p1 == checkLYCCoincidence([p EXCEPT !.m = setIO(@, 68, p.line)])
        IN  IF stateChanged(p1)
            THEN 1 + ppuPasses(transition(p1), maxIterations - 1)
            ELSE 1

\* the LCD-disabled branch of step()
lcdOff(p) ==
    IF p.line # 0 \/ p.mode # OAM_SCAN
    THEN [p EXCEPT !.line = 0, !.cycles = 0, !.mode = OAM_SCAN,
                   !.m = setIO(@, 68, 0)]
    ELSE p

\* PPU.step(cpuCycles)
ppuStep(p, cpuCycles) ==
    IF getBit(getIO(p.m, 64), 7) = 0
    THEN lcdOff(p)
    ELSE ppuLoop([p EXCEPT !.cycles = @ + cpuCycles], 1000)

\* PPU.reset()
ppuReset(p) ==
    [p EXCEPT !.mode = OAM_SCAN, !.cycles = 0, !.line = 0,
              !.windowLineCounter = 0,
              !.lycTriggered = FALSE, !.frameReady = FALSE]

(***************************************************************************)
(* Timer (core/timer/Timer.ts).  The timer's two accumulators are the      *)
(* field timer of the bus m it is connected to.                            *)
(***************************************************************************)
\* the while loop of updateDivider
RECURSIVE divLoop(_)
divLoop(m) ==
    IF m.timer.divCounter >= 256
    THEN divLoop(setIO([m EXCEPT !.timer.divCounter = @ - 256],
                       4, (getIO(m, 4) + 1) % 256))
    ELSE m

\* updateDivider(cycles)
updateDivider(m, n) == divLoop([m EXCEPT !.timer.divCounter = @ + n])

\* requestTimerInterrupt raising the Serial bit, 3, instead of the Timer bit
requestTimerInterruptAsSerial(m) ==
    setInterruptFlag(m, setBit(getInterruptFlag(m), 3))

\* requestTimerInterrupt()
requestTimerInterrupt(m) == setInterruptFlag(m, setBit(getInterruptFlag(m), 2))

\* the while loop of updateTimer
RECURSIVE timaLoop(_, _)
timaLoop(m, frequency) ==
    IF m.timer.timaCounter >= frequency
    THEN
        LET m1 == [m EXCEPT !.timer.timaCounter = @ - frequency]
            tima == (getIO(m1, 5) + 1) % 256
        IN  IF tima = 0
            THEN timaLoop(requestTimerInterrupt(setIO(m1, 5, getIO(m1, 6))),
                          frequency)
            ELSE timaLoop(setIO(m1, 5, tima), frequency)
    ELSE m

\* getTimerFrequency with the periods of selectors 1 and 2 exchanged
getTimerFrequencySwapped(bits) ==
    CASE bits = 0 -> 1024
      [] bits = 1 -> 64
      [] bits = 2 -> 16
      [] bits = 3 -> 256
      [] OTHER -> 1024

\* getTimerFrequency(bits): CPU cycles per TIMA increment
getTimerFrequency(bits) ==
    CASE bits = 0 -> 1024
      [] bits = 1 -> 16
      [] bits = 2 -> 64
      [] bits = 3 -> 256
      [] OTHER -> 1024

\* updateTimer(cycles)
updateTimer(m, n) ==
    LET tac == getIO(m, 7)
    IN  IF getBit(tac, 2) = 0 THEN m
        ELSE timaLoop([m EXCEPT !.timer.timaCounter = @ + n],
                      getTimerFrequency(tac % 4))

\* Timer.step consuming half of the cycles it is given
timerStepHalf(m, n) == updateTimer(updateDivider(m, n \div 2), n \div 2)

\* Timer.step(cycles)
timerStep(m, n) == updateTimer(updateDivider(m, n), n)

\* Timer.reset()
timerReset(m) ==
    setIO(setIO(setIO(setIO(
        [m EXCEPT !.timer = [divCounter |-> 0, timaCounter |-> 0]],
        4, 0), 5, 0), 6, 0), 7, 0)

(***************************************************************************)
(* Joypad (core/input/Joypad.ts)                                           *)
(***************************************************************************)
\* enum Button
RIGHT == 0
LEFT == 1
UP == 2
DOWN == 3
A == 4
B == 5
SELECT == 6
START == 7

\* the joypad of the current state, with the bus it holds
Joypad == [buttonStates |-> buttonStates, previousStates |-> previousStates,
           m |-> Mem]

\* result &= ~mask when the button is pressed
clearIfPressed(j, button, result, mask) ==
    IF button \in j.buttonStates /\ (result \div mask) % 2 = 1
    THEN result - mask
    ELSE result

\* updateJoypadRegister(): the buttons group is tested first, the directions
\* group only if the buttons group is not selected
updateJoypadRegister(j) ==
    LET p1 == Read(j.m, 65280)
        selectButtons == getBit(p1, 5) = 0
        selectDirections == getBit(p1, 4) = 0
        high == p1 - (p1 % 16)
        result ==
            IF selectButtons
            THEN clearIfPressed(j, A,
                     clearIfPressed(j, B,
                         clearIfPressed(j, SELECT,
                             clearIfPressed(j, START, high + 15, 8), 4), 2), 1)
            ELSE IF selectDirections
            THEN clearIfPressed(j, RIGHT,
                     clearIfPressed(j, LEFT,
                         clearIfPressed(j, UP,
                             clearIfPressed(j, DOWN, high + 15, 8), 4), 2), 1)
            ELSE high + 15
    IN  [j EXCEPT !.m = Write(@, 65280, result)]

\* checkInterrupt(): a button pressed now and not at the last check
checkInterrupt(j) ==
    LET newPress == \E i \in 0..7 :
                        i \in j.buttonStates /\ i \notin j.previousStates
        j1 == [j EXCEPT !.previousStates = j.buttonStates]
    IN  IF newPress
        THEN [j1 EXCEPT !.m = setInterruptFlag(@, setBit(getInterruptFlag(@), 4))]
        ELSE j1

\* pressButton(button)
pressButton(j, button) ==
    IF button \notin j.buttonStates
    THEN checkInterrupt(updateJoypadRegister(
             [j EXCEPT !.buttonStates = @ \cup {button}]))
    ELSE j

\* releaseButton(button)
releaseButton(j, button) ==
    IF button \in j.buttonStates
    THEN updateJoypadRegister([j EXCEPT !.buttonStates = @ \ {button}])
    ELSE j

\* Joypad.reset() on the bus m: both arrays cleared, then
\* updateJoypadRegister
joypadReset(m) ==
    updateJoypadRegister([buttonStates |-> {}, previousStates |-> {}, m |-> m]).m

(***************************************************************************)
(* Inputs                                                                  *)
(***************************************************************************)
\* the cycle counts a CPU step returns
CycleCounts == {4, 8, 12, 16, 20, 24}

\* registers C and A of LD (FF00+C),A in the CPU specification:
\* IE 0xFFFF := 0x1F, 0x14, 0xE0 and IF 0xFF0F := 0x00
LdioWrites == {<<255, 31>>, <<255, 20>>, <<255, 224>>, <<15, 0>>}

\* registers C and A of LD (FF00+C),A in the orchestrator's step: IE 0xFFFF :=
\* 0x06 (LCD STAT and Timer), TAC 0xFF07 := 0x05 (enabled, period 16),
\* TIMA 0xFF05 := 0xFF, STAT 0xFF41 := 0x40 (interrupt on LY = LYC)
StepWrites == {<<255, 6>>, <<7, 5>>, <<5, 255>>, <<65, 64>>}

\* addresses written in the bus specification: WRAM 0xC000 0xC09F, its echo
\* 0xE000, OAM 0xFE00, HRAM 0xFF80
RamAddrs == {49152, 49311, 57344, 65024, 65408}

\* bytes written there
RamValues == {0, 90, 165}

\* addresses of the echo specification: WRAM 0xC000 and 0xDDFF, their echoes
\* 0xE000 and 0xFDFF, and 0xDE00, the first WRAM address without an echo
EchoAddrs == {49152, 56831, 57344, 65023, 56832}

\* DMA source pages written to 0xFF46: WRAM 0xC0, echo RAM 0xE0, OAM 0xFE
DmaPages == {192, 224, 254}

\* timer registers written in the timer specification, each with its byte:
\* DIV 0xFF04 := 0xFF, TAC 0xFF07 := 0x05 (enabled, 16 cycles), TIMA 0xFF05 := 0xFE
TimerWrites == {<<65284, 255>>, <<65287, 5>>, <<65285, 254>>}

\* registers written in the timer-overflow specification, each with its
\* byte: TMA 0xFF06 := 0xF0, TIMA 0xFF05 := 0xFE, TAC 0xFF07 := 0x05,
\* IF 0xFF0F := 0x00
TimaWrites == {<<65286, 240>>, <<65285, 254>>, <<65287, 5>>, <<65295, 0>>}

\* bytes written to TAC in the timer-control specification: 0x01 (disabled),
\* 0x04 (1024 cycles), 0x05 (16), 0x06 (64), 0x07 (256)
TacValues == {1, 4, 5, 6, 7}

\* cycle counts of the timer steps there
TacCycleCounts == {4, 12, 24}

\* cycle counts of the CPU steps in the frame specification: an instruction
\* of 4 or 12 cycles, an interrupt dispatch of 20
FrameCycleCounts == {4, 12, 20}

\* buttons pressed and released in the joypad specification: Right and A
\* share P1 bit 0; Down drives bit 3
JoyButtons == {RIGHT, DOWN, A}

\* bytes written to P1 there: 0x10 (buttons selected), 0x20 (directions),
\* 0x00 (both), 0xFF (none)
P1Values == {16, 32, 0, 255}

\* ROM images loaded in the cartridge specification: a 32 KiB ROM-only image
\* (type 0x00), a 1 MiB MBC1 image (0x01, 64 banks), a 2 MiB MBC3 image
\* (0x11, 128 banks) and a 1 MiB MBC5 image (0x19, 64 banks); none has RAM
RomOnlyImage ==
    [length |-> 32768, type |-> 0, romSizeCode |-> 0, ramSizeCode |-> 0]

Images ==
    {RomOnlyImage,
     [length |-> 1048576, type |-> 1, romSizeCode |-> 5, ramSizeCode |-> 0],
     [length |-> 2097152, type |-> 17, romSizeCode |-> 6, ramSizeCode |-> 0],
     [length |-> 1048576, type |-> 25, romSizeCode |-> 5, ramSizeCode |-> 0]}

\* MBC1+RAM+BATTERY images of 64 KiB with no RAM, 2 KiB and 32 KiB of RAM
RamImages ==
    {[length |-> 65536, type |-> 3, romSizeCode |-> 1, ramSizeCode |-> k] :
        k \in {0, 1, 3}}

\* the bus writes of the external-RAM specification: the RAM-enable register
\* at 0x0000 and 0x1FFF := 0x00, 0x0A, 0x1A, 0xA0; RAM bank 0x4000 := 1 and
\* mode 0x6000 := 1; the RAM window at 0xA000, 0xA800 and 0xBFFF := 0x5A
RamWrites ==
    ({0, 8191} \X {0, 10, 26, 160})
        \cup {<<16384, 1>>, <<24576, 1>>}
        \cup ({40960, 43008, 49151} \X {90})

\* a ROM-only image of 32 KiB holding code, a map from addresses to bytes,
\* and 0x00 elsewhere in bank 0
ProgramImage(code) ==
    [length |-> 32768, type |-> 0, romSizeCode |-> 0, ramSizeCode |-> 0,
     code |-> code]

\* 0x0100: LD B, n; DEC B; JR NZ, -3
LoopProgram(n) ==
    (256 :> 6) @@ (257 :> n) @@ (258 :> 5) @@ (259 :> 32) @@ (260 :> 253)

\* 0x0100: a conditional branch with its operand: RET cc; JR cc, +16;
\* JP cc, 0x0210; CALL cc, 0x0210
BranchProgram(opcode) ==
    CASE opcode \in {192, 200, 208, 216} -> (256 :> opcode)
      [] opcode \in {32, 40, 48, 56} -> (256 :> opcode) @@ (257 :> 16)
      [] OTHER -> (256 :> opcode) @@ (257 :> 16) @@ (258 :> 2)

BranchPrograms ==
    {LoopProgram(n) : n \in 1..MaxLoop}
        \cup {BranchProgram(opcode) : opcode \in BranchOpcodes}

\* 0x0100: PUSH rr; POP rr
StackProgram(rr) ==
    CASE rr = "BC" -> (256 :> 197) @@ (257 :> 193)
      [] rr = "DE" -> (256 :> 213) @@ (257 :> 209)
      [] rr = "HL" -> (256 :> 229) @@ (257 :> 225)
      [] rr = "AF" -> (256 :> 245) @@ (257 :> 241)

\* 0x0100: PUSH BC; POP AF; DEC B; PUSH AF; POP DE
TransferProgram ==
    (256 :> 197) @@ (257 :> 241) @@ (258 :> 5) @@ (259 :> 245) @@ (260 :> 209)

\* stack pointers with the two bytes below them in writable memory: the top
\* of HRAM 0xFFFE and 0xFF82, WRAM 0xD000 and 0xC002, echo RAM 0xE002,
\* OAM 0xFE02
StackPointers == {65534, 65410, 53248, 49154, 57346, 65026}

\* stack pointers with the eight bytes below them in writable memory, room
\* for a handler and those that interrupt it: the top of HRAM 0xFFFE and
\* 0xFF88, WRAM 0xD000 and 0xC008, echo RAM 0xE002 (the words below its
\* first in WRAM proper), OAM 0xFE08
HandlerStackPointers == {65534, 65416, 53248, 49160, 57346, 65032}

\* register contents: each pair holds 0x0000, 0x12FF, 0xFF12 or 0xFFFF, with
\* A in place of the high byte of AF
PairBytes == {<<0, 0>>, <<18, 255>>, <<255, 18>>, <<255, 255>>}

\* control registers written there (0x0000 RAM enable, 0x2000 ROM bank,
\* 0x4000 RAM bank / ROM bank high, 0x6000 mode), and the bytes written:
\* 0x00, 0x01, 0x0A, 0x20, 0x45, 0xA0
ControlAddrs == {0, 8192, 16384, 24576}

\* MBC1 images of 2, 4, 64 and 128 banks (32 KiB, 64 KiB, 1 MiB, 2 MiB)
BankImages ==
    {[length |-> 32768 * (2 ^ k), type |-> 1, romSizeCode |-> k,
      ramSizeCode |-> 0] : k \in {0, 1, 5, 6}}

\* the control registers written in the banking specification, at both ends
\* of their ranges, and the bytes written: low five bits 0, 1, 2, 3 and
\* 0x1F, low two bits 0 to 3, bit 0 clear and set
BankAddrs == {0, 8192, 16383, 16384, 24575, 24576, 32767}
BankValues == {0, 1, 2, 3, 31, 32, 96, 255}

\* the addresses read in the banking specification: both ends of the two
\* ROM windows
WindowAddrs == {0, 16383, 16384, 32767}

ControlValues == {0, 1, 10, 32, 69, 160}

\* contents of F drawn in the arithmetic specification: carry clear and
\* set, each with the other three flags all clear and all set
\* (0x00, 0x10, 0xE0, 0xF0)
FlagBytes == {0, 16, 224, 240}

\* operand bytes of the additions there:
\* 0x00, 0x01, 0x0F, 0x10, 0x80, 0xF0, 0xFF
AluOperands == {0, 1, 15, 16, 128, 240, 255}

\* addresses read there: the first byte of each ROM window and the last byte
\* of the switchable one
RomAddrs == {0, 16384, 32767}

\* LCD registers written in the PPU specification, each with its bytes:
\* LCDC 0xFF40 := 0x91 (on), 0x11 (off); STAT 0xFF41 := 0x83; LY 0xFF44 := 0x55
LcdWrites == {<<65344, 145>>, <<65344, 17>>, <<65345, 131>>, <<65348, 85>>}

\* the cycle counts of the PPU specification's steps
PpuCycleCounts == {4, 12, 24}

\* the bytes written to STAT in the STAT-source specification, one mode
\* source each (bits 3, 4, 5), and the cycle counts of its steps
StatValues == {8, 16, 32}
StatCycleCounts == {12, 24}

\* LCD registers written in the window specification, each with its bytes:
\* LCDC 0xFF40 := 0xB1 (window on), 0x91 (window off), 0xB0 (background and
\* window off), 0x31 (LCD off); WY 0xFF4A := 100 (0 after load);
\* WX 0xFF4B := 166 (last column), 167 (off screen) (0 after load)
WindowWrites ==
    {<<65344, 177>>, <<65344, 145>>, <<65344, 176>>, <<65344, 49>>,
     <<65354, 100>>, <<65355, 166>>, <<65355, 167>>}

\* the cycle counts of the window specification's steps: half a scanline
\* and a scanline
WindowCycleCounts == {228, 456}

\* OAM as the program of the sprite specification fills it: entries 0 to
\* n - 1 at Y = 16 (rows 0-7 or 0-15 of the screen), those of gap at Y = 0
\* (off the screen); each entry on its own eight columns with tile 2, odd
\* entries flipped both ways, except the first hide entries, which are left
\* of the screen (X = 0), right of it (X = 168) or of the blank tile 0
SpriteKinds == {"left", "right", "transparent"}

SpriteBytes(n, gap, hide, kind) ==
    [k \in 0..(4 * n - 1) |->
        LET i == k \div 4
        IN  CASE k % 4 = 0 -> IF i \in gap THEN 0 ELSE 16
              [] k % 4 = 1 -> IF i < hide /\ kind = "left" THEN 0
                              ELSE IF i < hide /\ kind = "right" THEN 168
                              ELSE 8 + 8 * i
              [] k % 4 = 2 -> IF i < hide /\ kind = "transparent" THEN 0 ELSE 2
              [] OTHER -> IF i % 2 = 1 THEN 96 ELSE 0]

SpriteLayouts ==
    {SpriteBytes(n, gap, hide, kind) :
        n \in {10, 11, 13}, gap \in {{}, {0}, {4, 9}},
        hide \in {0, 3, 10}, kind \in SpriteKinds}

\* LCDC as written in the sprite specification: sprites of 8 rows (0x93), of
\* 16 rows (0x97), sprites off (0x91)
SpriteLcdcs == {147, 151, 145}

\* the lines written to LYC in the LY-compare specification
LycValues == {0, 2, 153}

\* the cycle counts of the line-timing specification's steps: those of an
\* instruction and a whole scanline
LineCycleCounts == {4, 12, 24, 456}

(***************************************************************************)
(* Initial state: new GameBoy() followed by loadROM(romData), the state in *)
(* which frame() and step() first do anything (both return at once while   *)
(* no ROM is loaded).  loadROM() ends with reset().                        *)
(***************************************************************************)
NoOp == [kind |-> "none", cycles |-> 0, addr |-> 0, val |-> 0]

\* the bus after the constructors, loadCartridge() and the first reset()
LoadedMMU(romData) ==
    joypadReset(timerReset(loadCartridge(NewMMU, Cartridge(romData))))

InitWith(romData) ==
    /\ pc = 256
    /\ sp = 65534
    /\ ime = FALSE
    /\ imeScheduled = FALSE
    /\ halted = FALSE
    /\ io = LoadedMMU(romData).io
    /\ interruptEnable = LoadedMMU(romData).ie
    /\ vram = LoadedMMU(romData).vram
    /\ wram = LoadedMMU(romData).wram
    /\ oam = LoadedMMU(romData).oam
    /\ hram = LoadedMMU(romData).hram
    /\ cartridge = LoadedMMU(romData).cartridge
    /\ mode = OAM_SCAN
    /\ cycles = 0
    /\ line = 0
    /\ lycTriggered = FALSE
    /\ frameReady = FALSE
    /\ windowLineCounter = 0
    /\ divCounter = 0
    /\ timaCounter = 0
    /\ op = NoOp
    /\ lastStep = "none"
    /\ eiThenDi = FALSE
    /\ tacWritten = -1
    /\ steps = 0
    /\ elapsed = 0
    /\ cyclesThisFrame = 0
    /\ frames = 0
    /\ latched = FALSE
    /\ buttonStates = {}
    /\ previousStates = {}

\* a ROM-only image is loaded
Init == InitWith(RomOnlyImage) /\ registers = NewRegisters

\* any of the images is loaded
InitCart == (\E romData \in Images : InitWith(romData)) /\ registers = NewRegisters

\* one of the MBC1 images of 2 to 128 banks is loaded
InitBank == (\E romData \in BankImages : InitWith(romData)) /\ registers = NewRegisters

\* one of the MBC1 images with or without RAM is loaded
InitRam == (\E romData \in RamImages : InitWith(romData)) /\ registers = NewRegisters

\* register files with those contents and the drawn flag bytes
DrawnRegisters ==
    {[a |-> w[1], f |-> f, b |-> w[1], c |-> w[2], d |-> w[2], e |-> w[1],
      h |-> w[1], l |-> w[2]] : w \in PairBytes, f \in FlagBytes}

\* one of the branch programs is loaded and the flags hold any of the drawn
\* contents
InitBranch ==
    /\ \E code \in BranchPrograms : InitWith(ProgramImage(code))
    /\ registers \in {[NewRegisters EXCEPT !.f = f] : f \in FlagBytes}

\* a PUSH rr; POP rr program is loaded and the program before it has
\* brought the registers and SP to any of the drawn contents
InitStack ==
    /\ \E rr \in {"BC", "DE", "HL", "AF"} :
           InitWith(ProgramImage(StackProgram(rr)))
    /\ registers \in DrawnRegisters

\* the program moving BC to AF through the stack is loaded
InitFlags ==
    /\ InitWith(ProgramImage(TransferProgram))
    /\ registers \in DrawnRegisters

\* a ROM-only image is loaded and the program has brought A and F to any
\* of the drawn contents
InitAlu ==
    /\ InitWith(RomOnlyImage)
    /\ registers \in {[NewRegisters EXCEPT !.a = a, !.f = f] :
                          a \in 0..255, f \in FlagBytes}

(***************************************************************************)
(* Operations                                                              *)
(***************************************************************************)
\* CPU.step() fetching opcode, with registers C and A holding c and a.
\* RETI is taken with its two stack bytes in HRAM.
CPUStep(opcode, c, a) ==
    /\ steps < MaxSteps
    /\ opcode = 217 => (sp >= 65408 /\ sp <= 65532)
    /\ LET r == step(Machine, opcode, c, a)
       IN  /\ SetMachine(r.s)
           /\ op' = [kind |-> r.kind, cycles |-> r.cycles, addr |-> 0, val |-> 0]
           /\ lastStep' = r.kind
           /\ eiThenDi' =
                  IF r.kind = "DI" /\ lastStep = "EI" THEN TRUE
                  ELSE IF r.kind \in {"EI", "RETI"} THEN FALSE
                  ELSE eiThenDi
    /\ steps' = steps + 1
    /\ UNCHANGED <<ppuVars, tacWritten, elapsed, extVars>>

\* the dispatches not yet returned from, oldest first, each with the PC and
\* SP at its dispatch
Pending == IF op.kind \in {"none", "LD SP, nn"} THEN <<>> ELSE op.val

\* CPU.step() fetching opcode, with registers C and A holding c and a, the
\* record of the operation keeping the dispatches not yet returned from.
\* RETI is fetched in a handler only.
HandlerStep(opcode, c, a) ==
    LET r == step(Machine, opcode, c, a)
    IN  /\ steps < MaxHandlerSteps
        /\ r.kind = "RETI" => Pending # <<>>
        /\ SetMachine(r.s)
        /\ op' = [kind |-> r.kind, cycles |-> r.cycles, addr |-> 0,
                  val |-> CASE r.kind = "dispatch" ->
                                   Append(Pending, [pc |-> pc, sp |-> sp])
                            [] r.kind = "RETI" ->
                                   SubSeq(Pending, 1, Len(Pending) - 1)
                            [] OTHER -> Pending]
        /\ lastStep' = r.kind
        /\ eiThenDi' =
               IF r.kind = "DI" /\ lastStep = "EI" THEN TRUE
               ELSE IF r.kind \in {"EI", "RETI"} THEN FALSE
               ELSE eiThenDi
        /\ steps' = steps + 1
        /\ UNCHANGED <<ppuVars, tacWritten, elapsed, extVars>>

\* CPU.requestInterrupt(bit), and the same update of IF by the PPU, the timer
\* and the joypad
RequestInterrupt(bit) ==
    /\ getBit(getInterruptFlag(Mem), bit) = 0
    /\ SetMem(setInterruptFlag(Mem, setBit(getInterruptFlag(Mem), bit)))
    /\ UNCHANGED <<cpuVars, ppuVars, op, lastStep, eiThenDi, tacWritten, steps, elapsed, extVars>>

\* MMU.write(address, value) by the CPU
BusWrite(address, value) ==
    /\ SetMem(Write(Mem, address, value))
    /\ op' = [kind |-> "write", cycles |-> 0, addr |-> address, val |-> value]
    /\ tacWritten' = IF address = 65287 THEN value ELSE tacWritten
    /\ UNCHANGED <<cpuVars, ppuVars, lastStep, eiThenDi, steps, elapsed, extVars>>

\* the handler of an addition, run on the drawn register contents with its
\* operand holding value; the immediate forms fetch the operand with readPC()
AluStep(opcode, value) ==
    LET r == aluHandler(opcode, registers, value)
    IN  /\ op.kind = "none"
        /\ registers' = r.r
        /\ pc' = to16Bit(pc + r.fetched)
        /\ op' = [kind |-> Mnemonic(opcode), cycles |-> r.cycles, addr |-> 0,
                  val |-> value]
        /\ UNCHANGED <<sp, ime, imeScheduled, halted, memVars, ppuVars,
                       timerVars, lastStep, eiThenDi, tacWritten, steps,
                       elapsed, frameVars, joypadVars>>

\* CPU.step() on the program in ROM
ProgramStep ==
    LET r == fetchStep([s |-> Machine, r |-> registers])
    IN  /\ elapsed + r.cycles <= MaxProgramElapsed
        /\ SetMachine(r.s)
        /\ registers' = r.r
        /\ op' = [kind |-> "fetch", cycles |-> r.cycles, addr |-> r.opcode,
                  val |-> 0]
        /\ steps' = steps + 1
        /\ elapsed' = elapsed + r.cycles
        /\ UNCHANGED <<ppuVars, lastStep, eiThenDi, tacWritten, frameVars,
                       joypadVars>>

\* 0x31: LD SP, nn as the program before 0x0100 executed it
LoadSP(value) ==
    /\ op.kind = "none"
    /\ sp' = value
    /\ op' = [kind |-> "LD SP, nn", cycles |-> 12, addr |-> 49, val |-> value]
    /\ UNCHANGED <<pc, ime, imeScheduled, halted, memVars, ppuVars, timerVars,
                   lastStep, eiThenDi, tacWritten, steps, elapsed, extVars>>

\* CPU.step() fetching a byte whose handler returns n: the interrupt check
\* and the HALT stall come first, as in every step; of the handler the fetch
\* and the value returned are kept, its work on registers and memory is not
TableStep(opcode, n) ==
    LET r == step(Machine, 0, 0, 0)
        retired == r.kind = "NOP"
    IN  /\ steps < MaxSteps
        /\ SetMachine(r.s)
        /\ op' = [kind |-> IF retired THEN "primary" ELSE r.kind,
                  cycles |-> IF retired THEN n ELSE r.cycles, addr |-> 0,
                  val |-> 0]
        /\ lastStep' = IF retired THEN "primary" ELSE r.kind
        /\ steps' = steps + 1
        /\ UNCHANGED <<ppuVars, eiThenDi, tacWritten, elapsed, extVars>>

\* CPU.step() fetching 0xCB and a second byte whose handler returns n
CbStep(cbOpcode, n) ==
    LET r == step(Machine, 0, 0, 0)
        retired == r.kind = "NOP"
    IN  /\ steps < MaxSteps
        /\ SetMachine(IF retired THEN advance(r.s, 1) ELSE r.s)
        /\ op' = [kind |-> IF retired THEN "cb" ELSE r.kind,
                  cycles |-> IF retired THEN n ELSE r.cycles, addr |-> 0,
                  val |-> 0]
        /\ lastStep' = IF retired THEN "cb" ELSE r.kind
        /\ steps' = steps + 1
        /\ UNCHANGED <<ppuVars, eiThenDi, tacWritten, elapsed, extVars>>

\* MMU.read(address) by the CPU
BusRead(address) ==
    /\ op' = [kind |-> "read", cycles |-> 0, addr |-> address,
              val |-> Read(Mem, address)]
    /\ UNCHANGED <<cpuVars, memVars, ppuVars, timerVars, lastStep, eiThenDi,
                   tacWritten, steps, elapsed, extVars>>

\* MMU.write(address, value) by the CPU to a register of the LCD; the
\* observation keeps only that a write came last
LcdWrite(address, value) ==
    /\ SetMem(Write(Mem, address, value))
    /\ op' = [kind |-> "write", cycles |-> 0, addr |-> 0, val |-> 0]
    /\ UNCHANGED <<cpuVars, ppuVars, lastStep, eiThenDi, tacWritten, steps, elapsed, extVars>>

\* the array bytes with its zero cells dropped
Filled(bytes) == [k \in {j \in DOMAIN bytes : bytes[j] # 0} |-> bytes[k]]

\* the program's first writes, before the PPU is stepped: the tiles 2 and 3
\* at 0x8020-0x803F filled with 0xFF (colour 3 throughout) and OAM filled
\* with bytes, each byte by an MMU.write, which stores it in vram or oam
LoadSprites(bytes) ==
    /\ op.kind = "none"
    /\ SetMem([Mem EXCEPT !.vram = [k \in 32..63 |-> 255],
                          !.oam = Filled(bytes)])
    /\ op' = [kind |-> "write", cycles |-> 0, addr |-> OAM_BASE, val |-> 0]
    /\ UNCHANGED <<cpuVars, ppuVars, lastStep, eiThenDi, tacWritten, steps, elapsed, extVars>>

\* renderScanline() drawing the sprites of the PPU's scanline: the writes
\* to the framebuffer are kept in the observation
RenderSprites ==
    /\ op.kind # "renderSprites"
    /\ getBit(getIO(Mem, 64), 1) = 1
    /\ op' = [kind |-> "renderSprites", cycles |-> 0, addr |-> line,
              val |-> renderSprites(Ppu)]
    /\ UNCHANGED <<cpuVars, memVars, ppuVars, timerVars, lastStep, eiThenDi,
                   tacWritten, steps, elapsed, extVars>>

\* the program's first writes, before the PPU is stepped: STAT 0xFF41 := 0x40
\* (LY = LYC interrupt source only) and LYC 0xFF45 := lyc
LycSetup(lyc) ==
    /\ op.kind = "none"
    /\ SetMem(Write(Write(Mem, 65345, 64), 65349, lyc))
    /\ op' = [kind |-> "write", cycles |-> 0, addr |-> 65349, val |-> lyc]
    /\ UNCHANGED <<cpuVars, ppuVars, lastStep, eiThenDi, tacWritten, steps, elapsed, extVars>>

\* PPU.step(cpuCycles)
PPUStep(n) ==
    LET p == ppuStep(Ppu, n)
    IN  /\ mode' = p.mode
        /\ cycles' = p.cycles
        /\ line' = p.line
        /\ lycTriggered' = p.lycTriggered
        /\ frameReady' = p.frameReady
        /\ windowLineCounter' = p.windowLineCounter
        /\ SetMem(p.m)
        /\ op' = [kind |-> "ppuStep", cycles |-> 0, addr |-> 0, val |-> 0]
        /\ UNCHANGED <<cpuVars, lastStep, eiThenDi, tacWritten, steps, elapsed, extVars>>

\* PPU.step(cpuCycles) while the window line counter stays within its bound
WindowStep(n) ==
    /\ ppuStep(Ppu, n).windowLineCounter <= MaxWindowLines
    /\ PPUStep(n)

\* PPU.step(cpuCycles), within a budget of limit cycles
PPUStepWithin(n, limit) ==
    LET p == ppuStep(Ppu, n)
    IN  /\ elapsed + n <= limit
        /\ mode' = p.mode
        /\ cycles' = p.cycles
        /\ line' = p.line
        /\ lycTriggered' = p.lycTriggered
        /\ frameReady' = p.frameReady
        /\ windowLineCounter' = p.windowLineCounter
        /\ SetMem(p.m)
        /\ op' = [kind |-> "ppuStep", cycles |-> 0, addr |-> 0, val |-> 0]
        /\ elapsed' = elapsed + n
        /\ UNCHANGED <<cpuVars, lastStep, eiThenDi, tacWritten, steps, extVars>>

\* Timer.step(cycles), within a budget of limit cycles
TimerStepWithin(n, limit) ==
    /\ elapsed + n <= limit
    /\ SetMem(timerStep(Mem, n))
    /\ op' = [kind |-> "timerStep", cycles |-> 0, addr |-> 0, val |-> 0]
    /\ elapsed' = elapsed + n
    /\ UNCHANGED <<cpuVars, ppuVars, lastStep, eiThenDi, tacWritten, steps, extVars>>

\* Timer.step(cycles)
TimerStep(n) == TimerStepWithin(n, MaxElapsed)

\* the first MMU.write to TAC by the CPU
TacWrite(value) ==
    /\ tacWritten = -1
    /\ BusWrite(65287, value)

\* Joypad.pressButton(button) by the input manager
PressButton(button) ==
    LET j == pressButton(Joypad, button)
    IN  /\ button \notin buttonStates
        /\ buttonStates' = j.buttonStates
        /\ previousStates' = j.previousStates
        /\ SetMem(j.m)
        /\ op' = [kind |-> "press", cycles |-> 0, addr |-> 0, val |-> button]
        /\ UNCHANGED <<cpuVars, ppuVars, lastStep, eiThenDi, tacWritten, steps,
                       elapsed, frameVars, registers>>

\* Joypad.releaseButton(button) by the input manager
ReleaseButton(button) ==
    LET j == releaseButton(Joypad, button)
    IN  /\ button \in buttonStates
        /\ buttonStates' = j.buttonStates
        /\ previousStates' = j.previousStates
        /\ SetMem(j.m)
        /\ op' = [kind |-> "release", cycles |-> 0, addr |-> 0, val |-> button]
        /\ UNCHANGED <<cpuVars, ppuVars, lastStep, eiThenDi, tacWritten, steps,
                       elapsed, frameVars, registers>>

\* GameBoy.reset(): cpu.reset(), ppu.reset(), timer.reset(), joypad.reset();
\* the bus is not re-initialised
Reset ==
    LET p == ppuReset(Ppu)
        m == joypadReset(timerReset(Mem))
    IN  /\ op.kind # "reset"
        /\ pc' = 256
        /\ sp' = 65534
        /\ ime' = FALSE
        /\ imeScheduled' = FALSE
        /\ halted' = FALSE
        /\ mode' = p.mode
        /\ cycles' = p.cycles
        /\ line' = p.line
        /\ lycTriggered' = p.lycTriggered
        /\ frameReady' = p.frameReady
        /\ windowLineCounter' = p.windowLineCounter
        /\ SetMem(m)
        /\ op' = [kind |-> "reset", cycles |-> 0, addr |-> 0, val |-> 0]
        /\ lastStep' = "none"
        /\ eiThenDi' = FALSE
        /\ tacWritten' = -1
        /\ buttonStates' = {}
        /\ previousStates' = {}
        /\ registers' = NewRegisters
        /\ UNCHANGED <<steps, elapsed, frameVars>>

\* one iteration of the while loop of GameBoy.frame(): cpu.step() returns n
\* cycles, then ppu.step(n), timer.step(n), cyclesThisFrame += n.  The
\* instruction stream is arbitrary; the CPU step is kept as the cycle count it
\* returns.
FrameIterate(n) ==
    LET p == ppuStep(Ppu, n)
    IN  /\ frames < MaxFrames
        /\ cyclesThisFrame < 70224
        /\ mode' = p.mode
        /\ cycles' = p.cycles
        /\ line' = p.line
        /\ lycTriggered' = p.lycTriggered
        /\ frameReady' = p.frameReady
        /\ windowLineCounter' = p.windowLineCounter
        /\ SetMem(timerStep(p.m, n))
        /\ cyclesThisFrame' = cyclesThisFrame + n
        /\ elapsed' = elapsed + n
        /\ latched' = ((line < SCREEN_HEIGHT /\ p.line >= SCREEN_HEIGHT)
                         \/ (cyclesThisFrame > 0 /\ latched))
        /\ op' = [kind |-> "frameStep", cycles |-> 0, addr |-> 0, val |-> 0]
        /\ UNCHANGED <<cpuVars, lastStep, eiThenDi, tacWritten, steps, frames,
                       joypadVars, registers>>

\* GameBoy.step(), and one iteration of the loop of GameBoy.frame(), with the
\* CPU executing opcode (registers C and A holding c and a): cycles =
\* cpu.step(); ppu.step(cycles); timer.step(cycles)
GameBoyStep(opcode, c, a) ==
    LET r == step(Machine, opcode, c, a)
        p == ppuStep([Ppu EXCEPT !.m = r.s.m], r.cycles)
        m == timerStep(p.m, r.cycles)
    IN  /\ elapsed + r.cycles <= MaxStepElapsed
        /\ pc' = r.s.pc
        /\ sp' = r.s.sp
        /\ ime' = r.s.ime
        /\ imeScheduled' = r.s.imeScheduled
        /\ halted' = r.s.halted
        /\ mode' = p.mode
        /\ cycles' = p.cycles
        /\ line' = p.line
        /\ lycTriggered' = p.lycTriggered
        /\ frameReady' = p.frameReady
        /\ windowLineCounter' = p.windowLineCounter
        /\ SetMem(m)
        /\ op' = [kind |-> r.kind, cycles |-> r.cycles, addr |-> opcode, val |-> 0]
        /\ lastStep' = r.kind
        /\ elapsed' = elapsed + r.cycles
        /\ UNCHANGED <<eiThenDi, tacWritten, steps, extVars>>

\* GameBoy.frame() leaves its loop and returns; the next call starts with
\* cyclesThisFrame = 0
FrameReturn ==
    /\ cyclesThisFrame >= 70224
    /\ frames' = frames + 1
    /\ cyclesThisFrame' = 0
    /\ op' = [kind |-> "frameReturn", cycles |-> cyclesThisFrame, addr |-> 0, val |-> 0]
    /\ UNCHANGED <<cpuVars, memVars, ppuVars, timerVars, lastStep, eiThenDi,
                   tacWritten, steps, elapsed, latched, joypadVars, registers>>

\* GameBoy.consumeFrame(), called between two frames
ConsumeFrame ==
    /\ op.kind = "frameReturn"
    /\ frameReady' = FALSE
    /\ windowLineCounter' = 0
    /\ op' = [kind |-> "consumeFrame", cycles |-> 0, addr |-> 0, val |-> 0]
    /\ UNCHANGED <<cpuVars, memVars, mode, cycles, line, lycTriggered, timerVars,
                   lastStep, eiThenDi, tacWritten, steps, elapsed, frameVars,
                   joypadVars, registers>>

(***************************************************************************)
(* Specifications                                                          *)
(***************************************************************************)
\* the CPU with the interrupt sources
Next ==
    \/ \E opcode \in Opcodes \ {226} : CPUStep(opcode, 0, 0)
    \/ \E w \in LdioWrites : CPUStep(226, w[1], w[2])
    \/ \E bit \in 0..4 : RequestInterrupt(bit)

Spec == Init /\ [][Next]_vars

\* the bus under CPU writes
NextBus ==
    \/ \E address \in RamAddrs, value \in RamValues : BusWrite(address, value)
    \/ \E page \in DmaPages : BusWrite(65350, page)

SpecBus == Init /\ [][NextBus]_vars

\* the bus under CPU reads and writes of work RAM and its echo
NextEcho ==
    \/ \E address \in EchoAddrs, value \in RamValues : BusWrite(address, value)
    \/ \E address \in EchoAddrs : BusRead(address)

SpecEcho == Init /\ [][NextEcho]_vars

\* the timer under timer steps and CPU writes
NextTimer ==
    \/ \E n \in CycleCounts : TimerStep(n)
    \/ \E w \in TimerWrites : BusWrite(w[1], w[2])
    \/ Reset

SpecTimer == Init /\ [][NextTimer]_vars

\* the timer under timer steps and one CPU write to TAC
NextTac ==
    \/ \E n \in TacCycleCounts : TimerStepWithin(n, MaxTacElapsed)
    \/ \E value \in TacValues : TacWrite(value)

SpecTac == Init /\ [][NextTac]_vars

\* the timer counting TIMA up to its overflow, under CPU writes to TMA,
\* TIMA, TAC and IF
NextTima ==
    \/ \E n \in TacCycleCounts : TimerStepWithin(n, MaxTimaElapsed)
    \/ \E w \in TimaWrites : BusWrite(w[1], w[2])

SpecTima == Init /\ [][NextTima]_vars

\* the PPU running with the LCD on, the CPU acknowledging interrupts by
\* writing 0 to IF
NextVBlank ==
    \/ \E n \in PpuCycleCounts : PPUStepWithin(n, MaxPpuElapsed)
    \/ BusWrite(65295, 0)

SpecVBlank == Init /\ [][NextVBlank]_vars

\* the orchestrator stepping the machine through a program of NOP, EI and
\* LD (FF00+C),A
NextStep ==
    \/ \E opcode \in {0, 251} : GameBoyStep(opcode, 0, 0)
    \/ \E w \in StepWrites : GameBoyStep(226, w[1], w[2])

SpecStep == Init /\ [][NextStep]_vars

\* the orchestrator running frames
NextFrame ==
    \/ \E n \in FrameCycleCounts : FrameIterate(n)
    \/ FrameReturn
    \/ ConsumeFrame

SpecFrame == Init /\ [][NextFrame]_vars

\* the joypad under button events and CPU writes to P1 and IF
NextJoypad ==
    \/ \E button \in JoyButtons : PressButton(button)
    \/ \E button \in JoyButtons : ReleaseButton(button)
    \/ \E value \in P1Values : BusWrite(65280, value)
    \/ BusWrite(65295, 0)
    \/ Reset

SpecJoypad == Init /\ [][NextJoypad]_vars

\* the CPU fetching undefined opcodes among NOP and EI, and resets
NextIllegal ==
    \/ \E opcode \in IllegalOpcodes \cup {0, 251} : CPUStep(opcode, 0, 0)
    \/ Reset

SpecIllegal == Init /\ [][NextIllegal]_vars

\* the 8-bit additions on drawn register contents and operands
NextAlu ==
    \E opcode \in AluOpcodes, value \in AluOperands : AluStep(opcode, value)

SpecAlu == InitAlu /\ [][NextAlu]_vars

\* the cartridge under CPU writes to its control registers and CPU reads of
\* its ROM windows
NextCart ==
    \/ \E address \in ControlAddrs, value \in ControlValues :
           BusWrite(address, value)
    \/ \E address \in RomAddrs : BusRead(address)

SpecCart == InitCart /\ [][NextCart]_vars

\* an MBC1 cartridge under CPU writes to its control registers and CPU reads
\* of its ROM windows
NextBank ==
    \/ \E address \in BankAddrs, value \in BankValues :
           BusWrite(address, value)
    \/ \E address \in WindowAddrs : BusRead(address)

SpecBank == InitBank /\ [][NextBank]_vars

\* the CPU running the branch programs
SpecBranch == InitBranch /\ [][ProgramStep]_vars

\* the CPU running PUSH rr; POP rr
NextStack ==
    \/ \E value \in StackPointers : LoadSP(value)
    \/ ProgramStep

SpecStack == InitStack /\ [][NextStack]_vars

\* the CPU running an addition and the program that moves BC to AF
NextFlags ==
    \/ \E opcode \in AluOpcodes, value \in AluOperands : AluStep(opcode, value)
    \/ ProgramStep

SpecFlags == InitFlags /\ [][NextFlags]_vars

\* the CPU stepping over every opcode of both tables, with interrupts
\* enabled, requested and HALT executed in between
NextReturn ==
    \/ \E opcode \in {118, 251} \cup IllegalOpcodes : CPUStep(opcode, 0, 0)
    \/ CPUStep(226, 255, 31)
    \/ \E bit \in {0, 2} : RequestInterrupt(bit)
    \/ \E opcode \in (0..255) \ (IllegalOpcodes \cup {203}) :
           \E n \in handlerReturns(opcode) : TableStep(opcode, n)
    \/ \E cbOpcode \in 0..255 :
           \E n \in cbReturns(cbOpcode) : CbStep(cbOpcode, n)

SpecReturn == Init /\ [][NextReturn]_vars

\* the bus over an MBC1 cartridge's external RAM
NextRam ==
    \/ \E w \in RamWrites : BusWrite(w[1], w[2])
    \/ \E address \in {40960, 43008, 49151} : BusRead(address)

SpecRam == InitRam /\ [][NextRam]_vars

\* the PPU running with the LCD on, stepped by instructions' cycle counts
\* and by whole scanlines
NextLine == \E n \in LineCycleCounts : PPUStepWithin(n, MaxLineElapsed)

SpecLine == Init /\ [][NextLine]_vars

\* the PPU running with the LCD on and the LY = LYC interrupt selected, the
\* CPU acknowledging interrupts by writing 0 to IF
NextLyc ==
    \/ \E lyc \in LycValues : LycSetup(lyc)
    \/ \E n \in PpuCycleCounts : op.kind # "none" /\ PPUStepWithin(n, MaxLycElapsed)
    \/ op.kind # "none" /\ BusWrite(65295, 0)

SpecLyc == Init /\ [][NextLyc]_vars

\* the PPU running with the LCD on, the CPU choosing the mode source of the
\* STAT interrupt and acknowledging interrupts by writing 0 to IF
NextStat ==
    \/ \E n \in StatCycleCounts : PPUStep(n)
    \/ \E v \in StatValues : LcdWrite(65345, v)
    \/ LcdWrite(65295, 0)

SpecStat == Init /\ [][NextStat]_vars

\* the PPU stepped by half scanlines, the CPU writing LCDC, WY and WX
NextWindow ==
    \/ \E n \in WindowCycleCounts : WindowStep(n)
    \/ \E w \in WindowWrites : LcdWrite(w[1], w[2])

SpecWindow == Init /\ [][NextWindow]_vars

\* the CPU entering interrupt handlers and returning from them: the program
\* sets SP, enables VBlank and Timer in IE (LD (FF00+C),A with C = 0xFF,
\* A = 0x05) and runs NOP, EI and RETI while the sources raise requests
NextReti ==
    \/ \E value \in HandlerStackPointers : LoadSP(value)
    \/ \E opcode \in {0, 217, 251} : HandlerStep(opcode, 0, 0)
    \/ HandlerStep(226, 255, 5)
    \/ \E bit \in {0, 2} : RequestInterrupt(bit)

SpecReti == Init /\ [][NextReti]_vars

\* the sprites of the scanlines 0 to 2 drawn from OAM as the program filled
\* it, the CPU choosing the sprite size
NextSprites ==
    \/ \E bytes \in SpriteLayouts : LoadSprites(bytes)
    \/ \E v \in SpriteLcdcs : op.kind # "none" /\ LcdWrite(65344, v)
    \/ op.kind # "none" /\ PPUStepWithin(456, MaxSpriteElapsed)
    \/ RenderSprites

SpecSprites == Init /\ [][NextSprites]_vars

\* the PPU under PPU steps and CPU writes
NextPPU ==
    \/ \E n \in PpuCycleCounts : PPUStep(n)
    \/ \E w \in LcdWrites : LcdWrite(w[1], w[2])
    \/ Reset

SpecPPU == Init /\ [][NextPPU]_vars

(***************************************************************************)
(* Properties                                                              *)
(***************************************************************************)
\* IE & IF & 0x1F
PendingBits == BitAnd(BitAnd(interruptEnable, Get(io, 15)), 31)

\* the lowest-numbered bit of a non-zero five-bit value
LowestBit(v) ==
    CHOOSE b \in 0..4 :
        getBit(v, b) = 1 /\ \A k \in 0..4 : k < b => getBit(v, k) = 0

\* a CPU step is being taken
CpuStepTaken == steps' = steps + 1

\* LCDC bit 7
LcdEnabled == getBit(Get(io, 64), 7) = 1

\* C1: if the CPU is halted with IME off and an enabled interrupt is pending,
\* the next step clears halted without dispatching: IF, IME, SP, the stack and
\* PC (which points behind the HALT) are unchanged.
C1_HaltWakesWithoutIME ==
    [][ (CpuStepTaken /\ halted /\ ~ime /\ ~imeScheduled /\ PendingBits # 0)
        => /\ ~halted'
           /\ Get(io', 15) = Get(io, 15)
           /\ ~ime'
           /\ sp' = sp
           /\ hram' = hram
           /\ pc' = pc ]_vars

\* the CPU has stalled in HALT with IME off while an enabled interrupt is pending
C1_Witness ==
    halted /\ ~ime /\ ~imeScheduled /\ PendingBits # 0 /\ lastStep = "stall"

\* C2: the step that follows an EI executed with IME off retires an
\* instruction; it never dispatches an interrupt, pending or not.
C2_InstructionAfterEIRunsFirst ==
    [][ (CpuStepTaken /\ lastStep = "EI" /\ ~ime) => lastStep' # "dispatch" ]_vars

\* EI has just retired with IME off and an enabled interrupt is pending
C2_Witness == lastStep = "EI" /\ ~ime /\ imeScheduled /\ PendingBits # 0

\* C3: once DI has retired in the step right after EI, IME is off, no enable
\* is scheduled and no step dispatches an interrupt, until EI or RETI executes.
C3_EIThenDILeavesIMEOff ==
    eiThenDi => (~ime /\ ~imeScheduled /\ lastStep # "dispatch")

\* an instruction has retired after EI; DI with an enabled interrupt pending
C3_Witness == eiThenDi /\ lastStep = "NOP" /\ PendingBits # 0

\* C4: a step that starts with IME on and IE & IF & 0x1F non-zero dispatches
\* the lowest pending bit b: only b is cleared in IF, IME is cleared, PC is
\* pushed (high byte at SP-1, low byte at SP-2), PC becomes 0x40 + 8*b, halted
\* is cleared, and the step returns 20 cycles without running an instruction.
C4_DispatchLowestPending ==
    [][ (CpuStepTaken /\ ime /\ PendingBits # 0)
        => LET b == LowestBit(PendingBits)
           IN  /\ Get(io', 15) = Get(io, 15) - 2 ^ b
               /\ interruptEnable' = interruptEnable
               /\ ~ime'
               /\ sp' = (sp - 2) % 65536
               /\ Read(Mem', sp - 1) = pc \div 256
               /\ Read(Mem', sp - 2) = pc % 256
               /\ pc' = 64 + 8 * b
               /\ ~halted'
               /\ op'.kind = "dispatch"
               /\ op'.cycles = 20 ]_vars

\* the timer interrupt has been dispatched while the joypad interrupt, of
\* lower priority, stays pending
C4_Witness ==
    /\ op.kind = "dispatch"
    /\ pc = 80
    /\ ~ime
    /\ getBit(PendingBits, 4) = 1
    /\ getBit(Get(io, 15), 2) = 0

\* C5: a write of v to 0xFF46 leaves OAM[i] equal to the byte that was
\* readable at (v << 8) + i, for every i in 0..159.
C5_DMACopiesPage ==
    [][ (op'.kind = "write" /\ op'.addr = 65350)
        => \A i \in 0..159 :
               Read(Mem', 65024 + i) = Read(Mem, op'.val * 256 + i) ]_vars

\* 0xC0 has been written to 0xFF46 with WRAM[0] = 0x5A
C5_Witness ==
    op.kind = "write" /\ op.addr = 65350 /\ op.val = 192 /\ Get(wram, 0) = 90

\* C6: a write to 0xFF04, whatever its value, sets DIV and the timer's DIV
\* accumulator to 0, and a timer step of n cycles adds n to the accumulator,
\* DIV counting each 256 accumulated: DIV next increments 256 cycles after the
\* write.
C6_DIVWriteResets ==
    [][ /\ (op' # op /\ op'.kind = "write" /\ op'.addr = 65284)
            => (Get(io', 4) = 0 /\ divCounter' = 0)
        /\ (op'.kind = "timerStep" /\ elapsed' > elapsed)
            => LET total == divCounter + (elapsed' - elapsed)
               IN  /\ divCounter' = total % 256
                   /\ Get(io', 4) = (Get(io, 4) + total \div 256) % 256 ]_vars

\* DIV has just counted to 1, 256 cycles after it was written at cycle 8 with
\* the timer running since cycle 4
C6_Witness ==
    /\ op.kind = "timerStep"
    /\ elapsed = 264
    /\ Get(io, 4) = 1
    /\ divCounter = 0
    /\ tacWritten = 5
    /\ Get(io, 5) = 16
    /\ timaCounter = 4

\* k increments of TIMA, each wrap reloading TMA
RECURSIVE TimaAfter(_, _, _)
TimaAfter(tima, tma, k) ==
    IF k = 0 THEN tima
    ELSE TimaAfter(IF tima = 255 THEN tma ELSE tima + 1, tma, k - 1)

\* the period selected by bits 0-1 of TAC
Period(v) ==
    CASE v % 4 = 0 -> 1024 [] v % 4 = 1 -> 16 [] v % 4 = 2 -> 64 [] v % 4 = 3 -> 256

\* C7: once the CPU has written v to TAC, a timer step of n cycles counts TIMA
\* if and only if bit 2 of v is set, one increment per Period(v) cycles.
C7_TimerFollowsTACWrite ==
    [][ (op'.kind = "timerStep" /\ elapsed' > elapsed /\ tacWritten # -1)
        => LET total == timaCounter + (elapsed' - elapsed)
           IN  IF getBit(tacWritten, 2) = 1
               THEN /\ timaCounter' = total % Period(tacWritten)
                    /\ Get(io', 5) =
                           TimaAfter(Get(io, 5), Get(io, 6),
                                     total \div Period(tacWritten))
               ELSE Get(io', 5) = Get(io, 5) ]_vars

\* TIMA has counted once, 1024 cycles after 0x04 was written to TAC
C7_Witness ==
    /\ op.kind = "timerStep"
    /\ tacWritten = 4
    /\ Get(io, 5) = 1
    /\ timaCounter = 0

\* C8: with the LCD off and the PPU stepped since, LY reads 0.
C8_LYZeroWhileLCDOff == (~LcdEnabled /\ op.kind = "ppuStep") => Read(Mem, 65348) = 0

\* the PPU has stepped with the LCD off, switched off right after the scanline
\* wrapped from 153
C8_Witness == ~LcdEnabled /\ op.kind = "ppuStep" /\ line = 0 /\ Get(io, 68) = 153

\* C9: with the LCD on, after each PPU step LY reads the PPU's scanline.
C9_LYMirrorsLine == (LcdEnabled /\ op.kind = "ppuStep") => Read(Mem, 65348) = line

\* the PPU has stepped from line 153 to the very start of line 0
C9_Witness ==
    LcdEnabled /\ op.kind = "ppuStep" /\ line = 0 /\ cycles = 0 /\ Get(io, 68) = 153

\* C10: with the LCD on, bits 0-1 of STAT equal the PPU's mode after reset and
\* after each PPU step.
C10_STATShowsMode ==
    (LcdEnabled /\ op.kind \in {"none", "reset", "ppuStep"}) => Read(Mem, 65345) % 4 = mode

\* the PPU has stepped after the CPU wrote STAT, without leaving its mode
C10_Witness == LcdEnabled /\ op.kind = "ppuStep" /\ mode = HBLANK /\ Get(io, 65) = 131

\* C11: while frame() runs, a frame-ready flag that is set stays set, and a
\* frame completed during the call is still reported when frame() returns.
C11_FrameReadyLatched ==
    [][ /\ (frameReady /\ op'.kind = "frameStep") => frameReady'
        /\ (op'.kind = "frameReturn" /\ latched) => frameReady' ]_vars

\* the first frame() has returned after the PPU passed line 144 during it
C11_Witness == op.kind = "frameReturn" /\ frames = 1 /\ latched

\* C12: after N calls of frame() the cycles retired exceed N x 70224 by at
\* most 20.
C12_FrameBudgetCarried ==
    op.kind = "frameReturn"
        => (elapsed >= frames * 70224 /\ elapsed - frames * 70224 <= 20)

\* the second frame() has returned, each call having overshot by 16 cycles
C12_Witness == op.kind = "frameReturn" /\ frames = 2 /\ elapsed = 2 * 70224 + 32

\* bits 0-3 of P1 as the key matrix drives them under the select bits of p1:
\* bit k is 0 if the directions group is selected and direction k is pressed,
\* or the buttons group is selected and button k + 4 is pressed
MatrixOut(p1, pressed) ==
    LET low(k) == IF \/ (getBit(p1, 4) = 0 /\ k \in pressed)
                     \/ (getBit(p1, 5) = 0 /\ (k + 4) \in pressed)
                  THEN 0 ELSE 1
    IN  low(0) + 2 * low(1) + 4 * low(2) + 8 * low(3)

\* C13: every joypad update (button event or CPU write to P1) in which a
\* matrix output bit goes from 1 to 0 raises the Joypad interrupt, IF bit 4.
C13_JoypadInterruptOnFallingEdge ==
    [][ (\E k \in 0..3 :
            /\ getBit(MatrixOut(Get(io, 0), buttonStates), k) = 1
            /\ getBit(MatrixOut(Get(io', 0), buttonStates'), k) = 0)
        => getBit(Get(io', 15), 4) = 1 ]_vars

\* A has been pressed with the buttons group selected and P1 bit 0 low, and
\* the Joypad interrupt is not pending: a press after a release
C13_Witness ==
    /\ op.kind = "press"
    /\ op.val = A
    /\ getBit(Get(io, 0), 5) = 0
    /\ getBit(Get(io, 0), 0) = 0
    /\ getBit(Get(io, 15), 4) = 0

\* C14: with both select lines active, after reset and after each button
\* event, bit k of P1 reads 0 iff direction k or button k + 4 is pressed.
C14_BothGroupsSelected ==
    (/\ op.kind \in {"none", "reset", "press", "release"}
     /\ getBit(Read(Mem, 65280), 5) = 0
     /\ getBit(Read(Mem, 65280), 4) = 0)
    => \A k \in 0..3 :
           getBit(Read(Mem, 65280), k) =
               IF k \in buttonStates \/ (k + 4) \in buttonStates THEN 0 ELSE 1

\* Down has been pressed with both select lines active
C14_Witness ==
    /\ op.kind = "press"
    /\ op.val = DOWN
    /\ getBit(Get(io, 0), 5) = 0
    /\ getBit(Get(io, 0), 4) = 0

\* C15: right after a CPU write of v to P1, the register reads bits 4-5 as
\* in v, bits 6-7 as 1 and bits 0-3 as the key matrix drives them for the
\* groups v selects.
C15_P1WriteReadBack ==
    [][ (op'.kind = "write" /\ op'.addr = 65280)
        => LET v == op'.val
               r == Read(Mem', 65280)
           IN  /\ getBit(r, 4) = getBit(v, 4)
               /\ getBit(r, 5) = getBit(v, 5)
               /\ getBit(r, 6) = 1
               /\ getBit(r, 7) = 1
               /\ r % 16 = MatrixOut(v, buttonStates') ]_vars

\* 0x10 has been written to P1 while A is held
C15_Witness ==
    op.kind = "write" /\ op.addr = 65280 /\ op.val = 16 /\ A \in buttonStates

\* the loaded cartridge's header type is one of types and its image has
\* banks 16 KiB banks
Loaded(types, banks) ==
    /\ cartridge # <<>>
    /\ cartridge[1].type \in types
    /\ cartridge[1].rom.length = banks * 16384

\* the CPU has just written to the ROM bank register, 0x2000-0x3FFF
BankWritten == op.kind = "write" /\ op.addr >= 8192 /\ op.addr <= 16383

\* the byte of the loaded image at offset address - 0x4000 of bank
ByteOfBank(bank, address) ==
    romAt(cartridge[1].rom, bank * 16384 + address - 16384)

\* value with 0 replaced by 1
Substituted(value) == IF value = 0 THEN 1 ELSE value

\* C16 as stated: on a 1 MiB (64-bank) MBC1 cartridge, right after a write of
\* 0x20 to 0x2000 a read of 0x4000 returns the ROM byte at offset
\* 0x21 x 0x4000.
C16_Write0x20SelectsBank0x21 ==
    (Loaded({1, 2, 3}, 64) /\ BankWritten /\ op.addr = 8192 /\ op.val = 32)
    => Read(Mem, 16384) = ByteOfBank(33, 16384)

\* C16, amended: on a 1 MiB (64-bank) MBC1 cartridge, right after a write of
\* 0x20 to 0x2000 the low bank register holds 1 (the written five bits are 0
\* and 0 is replaced by 1), so a read of 0x4000 returns the ROM byte at
\* offset (((high << 5) | 1) & 63) x 0x4000, where high is the register
\* written through 0x4000-0x5FFF: bank 0x01 while high is 0, as it is after
\* load, and bank 0x21 only while bit 0 of high is 1; never bank 0x20.
C16_Write0x20SubstitutesLowBits ==
    (Loaded({1, 2, 3}, 64) /\ BankWritten /\ op.addr = 8192 /\ op.val = 32)
    => /\ Read(Mem, 16384) =
              ByteOfBank(BitAnd(cartridge[1].mbc.ramBankOrRomBankHigh * 32 + 1,
                                63), 16384)
       /\ Read(Mem, 16384) # ByteOfBank(32, 16384)

\* 0x20 has been written to 0x2000 of the 64-bank MBC1 cartridge with the
\* high register still 0, and 0x4000 reads from bank 1
C16_Witness ==
    /\ Loaded({1, 2, 3}, 64)
    /\ BankWritten /\ op.addr = 8192 /\ op.val = 32
    /\ cartridge[1].mbc.ramBankOrRomBankHigh = 0
    /\ Read(Mem, 16384) = ByteOfBank(1, 16384)

\* C17: with a cartridge of header type 0x11-0x13 loaded, right after a
\* write of n to 0x2000-0x3FFF the reads of 0x4000-0x7FFF come from ROM bank
\* (n & 0x7F, with 0 replaced by 1) masked to the bank count.
C17_MBC3TypesBankLikeMBC3 ==
    (Loaded({17, 18, 19}, 128) /\ BankWritten)
    => \A address \in RomAddrs \ {0} :
           Read(Mem, address) =
               ByteOfBank(BitAnd(Substituted(op.val % 128), 127), address)

\* 0x45 has been written to 0x2000 of the cartridge of type 0x11
C17_Witness ==
    Loaded({17}, 128) /\ BankWritten /\ op.addr = 8192 /\ op.val = 69

\* C18: a cartridge whose header selects a controller kind without an
\* implementation (none of ROM-only, MBC1, MBC3) is either not loaded, or
\* banks like MBC1: right after a write of v to 0x2000-0x3FFF the bank read
\* at 0x4000 has, on a 64-bank image, v's low five bits with 0 replaced by 1.
C18_UnsupportedKindRejectedOrMBC1 ==
    \/ cartridge = <<>>
    \/ cartridge[1].type \in {0, 1, 2, 3, 17, 18, 19}
    \/ (Loaded({cartridge[1].type}, 64) /\ BankWritten)
       => Read(Mem, 16384) % 32 = Substituted(op.val % 32)

\* 0x45 has been written to 0x2000 of the loaded cartridge of type 0x19
C18_Witness ==
    Loaded({25}, 64) /\ BankWritten /\ op.addr = 8192 /\ op.val = 69

\* the mnemonics of the undefined opcodes
IllegalKinds == {Mnemonic(opcode) : opcode \in IllegalOpcodes}

\* C19: a step that fetches one of the eleven undefined opcodes ends in an
\* error and returns no cycle count, and after such a step the CPU executes
\* no instruction until it is reset: a further step ends in the error again
\* and leaves the CPU as it is.
C19_IllegalOpcodeIsFatal ==
    [][ /\ op'.kind \in IllegalKinds => op'.cycles = -1
        /\ (op.kind \in IllegalKinds /\ CpuStepTaken)
           => (op'.cycles = -1 /\ UNCHANGED cpuVars) ]_vars

\* a step has fetched 0xD3 and ended in the error
C19_Witness == op.kind = "ILLEGAL_D3" /\ op.cycles = -1 /\ pc = 257

\* the mnemonics of the additions without and with carry-in
AddKinds == {"ADD A, B", "ADD A, H", "ADD A, (HL)", "ADD A, A", "ADD A, n"}

AdcKinds == {"ADC A, B", "ADC A, (HL)", "ADC A, A", "ADC A, n"}

\* C20: after every 8-bit ADD and ADC, with A and b the accumulator and the
\* operand before the instruction and c the carry-in (0 for ADD, the carry
\* flag for ADC): Z = (result = 0), N = 0, H = ((A & 0xF) + (b & 0xF) + c >
\* 0xF), C = (A + b + c > 0xFF), and A holds the result.
C20_AddFlags ==
    [][ op'.kind \in AddKinds \cup AdcKinds
        => LET acc == registers.a
               b == IF op'.kind \in {"ADD A, A", "ADC A, A"} THEN acc
                    ELSE op'.val
               c == IF op'.kind \in AdcKinds THEN getBit(registers.f, 4) ELSE 0
               result == (acc + b + c) % 256
           IN  /\ registers'.a = result
               /\ getBit(registers'.f, 7) = (IF result = 0 THEN 1 ELSE 0)
               /\ getBit(registers'.f, 6) = 0
               /\ getBit(registers'.f, 5) =
                      (IF (acc % 16) + (b % 16) + c > 15 THEN 1 ELSE 0)
               /\ getBit(registers'.f, 4) =
                      (IF acc + b + c > 255 THEN 1 ELSE 0) ]_vars

\* ADC A, n has run with operand 0x0F on A = 0x00 with the carry flag set:
\* A holds 0x10 and the half-carry flag is clear
C20_Witness ==
    /\ op.kind = "ADC A, n"
    /\ op.val = 15
    /\ registers.a = 16
    /\ getBit(registers.f, 5) = 0


\* the increments an enabled TIMA takes in a timer step of n cycles
TimaIncrements(n) == (timaCounter + n) \div Period(Get(io, 7))

\* TIMA after k increments from tima, continuing from tma after each wrap
RECURSIVE Reloaded(_, _, _)
Reloaded(tima, tma, k) ==
    CASE k = 0 -> tima
      [] tima + k <= 255 -> tima + k
      [] OTHER -> Reloaded(tma, tma, k - (256 - tima))

\* C21: a timer step in which the enabled TIMA is incremented past 0xFF
\* leaves the Timer interrupt requested (IF bit 2) and TIMA counting on from
\* TMA: the reload and the request happen in that step.
C21_TimaWrapReloadsAndRequests ==
    [][ (/\ op'.kind = "timerStep"
         /\ getBit(Get(io, 7), 2) = 1
         /\ Get(io, 5) + TimaIncrements(elapsed' - elapsed) > 255)
        => /\ getBit(Get(io', 15), 2) = 1
           /\ Get(io', 5) = Reloaded(Get(io, 5), Get(io, 6),
                                     TimaIncrements(elapsed' - elapsed)) ]_vars

\* with TMA = 0xF0 and TAC = 0x05 a timer step has just reloaded TIMA, which
\* the CPU had set to 0xFE, and the Timer interrupt is requested
C21_Witness ==
    /\ op.kind = "timerStep"
    /\ Get(io, 7) = 5
    /\ Get(io, 6) = 240
    /\ Get(io, 5) = 240
    /\ timaCounter = 0
    /\ getBit(Get(io, 15), 2) = 1


\* the number of times the PPU clock has reached cycle 65664 (144 lines of
\* 456 cycles) of a frame of 70224 cycles, after t cycles with the LCD on
VBlankStarts(t) == (t + 70224 - 65664) \div 70224

\* C22: with the LCD on since load, a PPU step requests the VBlank interrupt
\* (IF bit 0 goes from 0 to 1) exactly when the PPU clock reaches cycle 65664
\* of a frame in it, once per 70224 cycles, and exactly when the step takes
\* the PPU from HBlank of line 143 to line 144.
C22_VBlankOncePerFrame ==
    [][ (op'.kind = "ppuStep" /\ LcdEnabled /\ getBit(Get(io, 15), 0) = 0)
        => /\ getBit(Get(io', 15), 0) = 1
              <=> VBlankStarts(elapsed') = VBlankStarts(elapsed) + 1
           /\ getBit(Get(io', 15), 0) = 1
              <=> (line = 143 /\ line' = 144 /\ mode' = VBLANK) ]_vars

\* the PPU has entered line 144 of the second frame at cycle 135888 and the
\* VBlank interrupt is requested
C22_Witness ==
    /\ op.kind = "ppuStep"
    /\ elapsed = 135888
    /\ line = 144
    /\ mode = VBLANK
    /\ getBit(Get(io, 15), 0) = 1


\* the PPU's position in the frame, in cycles
PpuClock ==
    line * 456 + cycles + (CASE mode = DRAWING -> OAM_SCAN_CYCLES
                             [] mode = HBLANK -> OAM_SCAN_CYCLES + DRAWING_CYCLES
                             [] OTHER -> 0)

\* the timer's 16-bit divider: DIV above its cycle counter
TimerClock == Get(io, 4) * 256 + divCounter

\* C23: every step of the orchestrator advances the PPU and the timer by the
\* cycles of its CPU step before the next CPU step begins: the IF bit of a TIMA
\* wrap or of an LY = LYC STAT interrupt of the step is set when the step ends,
\* and a step that begins with IME on (or scheduled) and an enabled interrupt
\* requested dispatches the one of highest priority.
C23_StepConsumedBeforeNext ==
    [][ op'.kind # "none"
        => /\ elapsed' = elapsed + op'.cycles
           /\ PpuClock' = (PpuClock + op'.cycles) % 70224
           /\ TimerClock' = (TimerClock + op'.cycles) % 65536
           /\ (op'.kind # "LDIO" /\ getBit(Get(io', 7), 2) = 1
                 /\ Get(io', 5) < Get(io, 5))
              => getBit(Get(io', 15), 2) = 1
           /\ (~lycTriggered /\ line' = Get(io', 69) /\ getBit(Get(io', 65), 6) = 1)
              => getBit(Get(io', 15), 1) = 1
           /\ ((ime \/ imeScheduled) /\ BitAnd(interruptEnable, Get(io, 15)) # 0)
              => /\ op'.kind = "dispatch"
                 /\ pc' = interrupts[FirstTriggered(
                              BitAnd(interruptEnable, Get(io, 15)))].address ]_vars

\* the timer interrupt raised by a wrap of TIMA during one step has been
\* dispatched by the next: PC is at 0x50 and IF bit 2 is clear again
C23_Witness ==
    /\ op.kind = "dispatch"
    /\ pc = 80
    /\ getBit(Get(io, 15), 2) = 0
    /\ Get(io, 5) < 255
    /\ Get(io, 7) = 5

\* the LY = LYC STAT interrupt raised by the PPU has been dispatched
C23_WitnessStat ==
    /\ op.kind = "dispatch"
    /\ pc = 72
    /\ lycTriggered


\* the RAM-enable flag of the loaded controller
RamEnabled == cartridge[1].mbc.ramEnabled

\* the cartridge has no RAM
RamAbsent == cartridge[1].ramSize = 0

\* the step is an access of kind k to the external-RAM window 0xA000-0xBFFF
RamAccess(k) == op'.kind = k /\ op'.addr >= 40960 /\ op'.addr <= 49151

\* C24: an MBC1 cartridge starts with RAM disabled; a write to 0x0000-0x1FFF
\* enables it exactly when the written low nibble is 0xA and nothing else
\* changes the enable; while RAM is disabled or absent a read of
\* 0xA000-0xBFFF returns 0xFF and a write changes nothing in the cartridge and
\* still reads back 0xFF.
C24_RamEnableGatesAccess ==
    /\ ~RamEnabled
    /\ [][ /\ RamEnabled' = IF op'.kind = "write" /\ op'.addr <= 8191
                           THEN BitAnd(op'.val, 15) = 10
                           ELSE RamEnabled
           /\ (RamAccess("read") /\ (~RamEnabled \/ RamAbsent))
              => op'.val = 255
           /\ (RamAccess("write") /\ (~RamEnabled \/ RamAbsent))
              => /\ cartridge' = cartridge
                 /\ Read(Mem', op'.addr) = 255 ]_vars

\* a byte was stored in enabled RAM, RAM was then disabled and the window
\* reads 0xFF
C24_Witness ==
    /\ op.kind = "read"
    /\ op.addr = 40960
    /\ op.val = 255
    /\ ~RamEnabled
    /\ ~RamAbsent
    /\ Get(cartridge[1].mbc.ram, 0) = 90


\* the cycles the claim gives a conditional branch: taken, not taken
BranchCycles(opcode) ==
    CASE opcode \in {32, 40, 48, 56} -> <<12, 8>>
      [] opcode \in {194, 202, 210, 218} -> <<16, 12>>
      [] opcode \in {196, 204, 212, 220} -> <<24, 12>>
      [] opcode \in {192, 200, 208, 216} -> <<20, 8>>

\* the bytes of a conditional branch
BranchLength(opcode) ==
    CASE opcode \in {32, 40, 48, 56} -> 2
      [] opcode \in {192, 200, 208, 216} -> 1
      [] OTHER -> 3

\* the loop program is loaded, and the count its LD B, n loads
LoopLoaded == romAt(cartridge[1].rom, 256) = 6
LoopCount == romAt(cartridge[1].rom, 257)

\* C25: a conditional branch executed with its condition true is taken and
\* returns 12 (JR), 16 (JP), 24 (CALL) or 20 (RET) cycles; with its condition
\* false it falls through and returns 8, 12, 12 or 8.  The program LD B, n;
\* DEC B; JR NZ, -3 started at 0x0100 leaves its loop with B = 0 after 2n + 1
\* instructions (n of them DEC B) and 16n + 4 cycles: 52 cycles for n = 3.
C25_BranchCycles ==
    [][ op'.kind = "fetch"
        => /\ op'.addr \in BranchOpcodes
              => LET taken == condition(registers, ccOf(op'.addr))
                 IN  /\ op'.cycles = BranchCycles(op'.addr)[IF taken THEN 1 ELSE 2]
                     /\ taken <=> pc' # to16Bit(pc + BranchLength(op'.addr))
           /\ (LoopLoaded /\ op'.addr = 32 /\ pc' = 261)
              => /\ registers'.b = 0
                 /\ steps' = 2 * LoopCount + 1
                 /\ elapsed' = 16 * LoopCount + 4
                 /\ LoopCount = 3 => elapsed' = 52 ]_vars

\* the loop of LD B, 3 has just been left after 52 cycles
C25_Witness ==
    /\ LoopLoaded
    /\ LoopCount = 3
    /\ op.kind = "fetch"
    /\ op.addr = 32
    /\ pc = 261
    /\ elapsed = 52
    /\ registers.b = 0

\* a conditional CALL has been taken: 24 cycles, the return address pushed
C25_WitnessCall ==
    /\ op.kind = "fetch"
    /\ op.addr = 220
    /\ op.cycles = 24
    /\ pc = 528
    /\ sp = 65532


\* C26: PUSH rr leaves the registers alone, lowers SP by 2 and stores the
\* high byte of rr at the old SP-1 and the low byte at the old SP-2; a POP rr
\* that follows it at once leaves rr (and every other register) as it was
\* before the POP, hence before the PUSH, and raises SP by 2 again.
C26_PushPopIdentity ==
    [][ /\ (op'.kind = "fetch" /\ op'.addr \in {197, 213, 229, 245})
           => /\ registers' = registers
              /\ sp' = to16Bit(sp - 2)
              /\ Read(Mem', to16Bit(sp - 1))
                    = getPair(registers, rrOf(op'.addr)) \div 256
              /\ Read(Mem', to16Bit(sp - 2))
                    = getPair(registers, rrOf(op'.addr)) % 256
        /\ (/\ op.kind = "fetch" /\ op.addr \in {197, 213, 229, 245}
            /\ op'.kind = "fetch" /\ op'.addr = op.addr - 4)
           => /\ registers' = registers
              /\ sp' = to16Bit(sp + 2) ]_vars

\* PUSH AF; POP AF has run with SP = 0xD000 and AF = 0x12F0
C26_Witness ==
    /\ op.kind = "fetch"
    /\ op.addr = 241
    /\ steps = 2
    /\ sp = 53248
    /\ registers.a = 18
    /\ registers.f = 240
    /\ Get(wram, 4095) = 18
    /\ Get(wram, 4094) = 240


\* C27: between instructions the low four bits of F are 0, also after POP AF
\* has loaded a stack word whose low byte has them set.
C27_FlagsLowNibbleZero == BitAnd(registers.f, 15) = 0

\* POP AF has loaded the word 0x12FF that PUSH BC stored: A = 0x12, F = 0xF0
C27_Witness ==
    /\ op.kind = "fetch"
    /\ op.addr = 241
    /\ Read(Mem, to16Bit(sp - 2)) = 255
    /\ Read(Mem, to16Bit(sp - 1)) = 18
    /\ registers.a = 18
    /\ registers.f = 240


\* every echo address reads the byte of the work-RAM address 0x2000 below it
EchoAgrees ==
    \A k \in 0..7679 : Read(Mem, 57344 + k) = Read(Mem, 49152 + k)

\* C28: for every k in [0, 0x1E00) reading 0xE000+k returns what reading
\* 0xC000+k returns, and after a write of a byte to either address both read
\* that byte.
C28_EchoAliasesWorkRAM ==
    /\ []EchoAgrees
    /\ [][ /\ (op'.kind = "write" /\ op'.addr >= 49152 /\ op'.addr < 56832)
              => /\ Read(Mem', op'.addr) = op'.val
                 /\ Read(Mem', op'.addr + 8192) = op'.val
           /\ (op'.kind = "write" /\ op'.addr >= 57344 /\ op'.addr < 65024)
              => /\ Read(Mem', op'.addr) = op'.val
                 /\ Read(Mem', op'.addr - 8192) = op'.val
           /\ (op'.kind = "read" /\ op'.addr >= 57344 /\ op'.addr < 65024)
              => op'.val = Read(Mem, op'.addr - 8192) ]_vars

\* 0xA5 has been written to the last echo address, 0xFDFF, and is read at
\* 0xDDFF
C28_Witness ==
    /\ op.kind = "write"
    /\ op.addr = 65023
    /\ op.val = 165
    /\ Read(Mem, 56831) = 165


\* C29: every step() that returns, whether it retired an instruction of the
\* primary or of the CB table, dispatched an interrupt or stalled in HALT,
\* returns 4, 8, 12, 16, 20 or 24; the only steps that return nothing are
\* those of the eleven undefined opcodes, which end in an error.
C29_StepReturnsCycleCount ==
    [][ steps' = steps + 1
        => \/ op'.cycles \in {4, 8, 12, 16, 20, 24}
           \/ op'.kind \in IllegalKinds /\ op'.cycles = -1 ]_vars

\* a step has retired BIT b, (HL), the one handler returning 12 in the CB
\* table, while IME was on
C29_Witness == op.kind = "cb" /\ op.cycles = 12 /\ ime

\* an interrupt has been dispatched out of HALT: 20 cycles
C29_WitnessDispatch == op.kind = "dispatch" /\ op.cycles = 20 /\ lastStep = "dispatch"


\* C30: after a PPU step taken with the LCD off the PPU is on line 0 in
\* OAM-Scan mode with its cycle accumulator at 0.
C30_LcdOffResetsPPU ==
    (~LcdEnabled /\ op.kind = "ppuStep")
        => (line = 0 /\ mode = OAM_SCAN /\ cycles = 0)

\* the PPU has stepped with the LCD off, switched off during the OAM scan of
\* line 0, and still holds the cycles accumulated before
C30_Witness ==
    /\ ~LcdEnabled
    /\ op.kind = "ppuStep"
    /\ line = 0
    /\ mode = OAM_SCAN
    /\ cycles = 12


\* the scanline, the mode and the cycles spent in the mode, t cycles after
\* the PPU entered Mode 2 of line 0: 154 lines of 456 cycles, lines 0-143
\* split into 80 of Mode 2, 172 of Mode 3 and 204 of Mode 0, lines 144-153
\* spent in Mode 1
LineAt(t) == (t % 70224) \div 456

ModeAt(t) ==
    CASE LineAt(t) >= 144 -> VBLANK
      [] LineAt(t) < 144 /\ t % 456 < 80 -> OAM_SCAN
      [] LineAt(t) < 144 /\ t % 456 >= 80 /\ t % 456 < 252 -> DRAWING
      [] OTHER -> HBLANK

SpentAt(t) ==
    CASE ModeAt(t) = VBLANK -> t % 456
      [] ModeAt(t) = OAM_SCAN -> t % 456
      [] ModeAt(t) = DRAWING -> (t % 456) - 80
      [] OTHER -> (t % 456) - 252

\* C31: with the LCD on, after every PPU step the PPU is on the line and in
\* the mode that the cycles stepped since it entered line 0 place it in (80
\* cycles of Mode 2, 172 of Mode 3, 204 of Mode 0 on lines 0-143, 456 of
\* Mode 1 on lines 144-153, line 0 Mode 2 again after 70224), with the
\* remainder in its accumulator, however the cycles were split over the steps.
C31_LineTiming ==
    (LcdEnabled /\ op.kind = "ppuStep")
        => /\ line = LineAt(elapsed)
           /\ mode = ModeAt(elapsed)
           /\ cycles = SpentAt(elapsed)

\* the PPU is back at the start of Mode 2 of line 0, 70224 cycles after load
C31_Witness ==
    /\ LcdEnabled
    /\ op.kind = "ppuStep"
    /\ elapsed = 70224
    /\ line = 0
    /\ mode = OAM_SCAN
    /\ cycles = 0

\* the PPU is 100 cycles into Mode 0 of line 143, 65560 cycles after load
C31_WitnessHBlank ==
    /\ LcdEnabled
    /\ op.kind = "ppuStep"
    /\ elapsed = 65560
    /\ line = 143
    /\ mode = HBLANK
    /\ cycles = 100


\* STAT bit 2, the coincidence flag
Coincident == getBit(Get(io, 65), 2) = 1

\* C32: with STAT bit 6 set, a PPU step raises the LYC STAT interrupt (IF
\* bit 1 goes from 0 to 1) exactly when it establishes the coincidence (the
\* coincidence flag goes from 0 to 1, LY having become equal to LYC): once for
\* each scanline on which LY equals LYC, and never in a later step of the scanline.
C32_LycInterruptOncePerLine ==
    [][ (op'.kind = "ppuStep" /\ getBit(Get(io, 65), 6) = 1
                              /\ getBit(Get(io, 15), 1) = 0)
        => /\ Coincident' <=> Get(io', 68) = Get(io', 69)
           /\ getBit(Get(io', 15), 1) = 1 <=> (~Coincident /\ Coincident') ]_vars

\* in the second frame the PPU has stepped on line 2 with LYC = 2 after the
\* CPU acknowledged the interrupt of the line, and IF bit 1 has stayed clear
C32_Witness ==
    /\ op.kind = "ppuStep"
    /\ elapsed > 70224
    /\ line = 2
    /\ Get(io, 68) = 2
    /\ Get(io, 69) = 2
    /\ getBit(Get(io, 65), 6) = 1
    /\ lycTriggered
    /\ getBit(Get(io, 15), 1) = 0

\* the interrupt of line 153 has just been raised
C32_WitnessRaised ==
    /\ op.kind = "ppuStep"
    /\ Get(io, 68) = 153
    /\ Get(io, 69) = 153
    /\ cycles = 4
    /\ getBit(Get(io, 15), 1) = 1


\* whether STAT byte stat enables the interrupt source of mode m: bit 3 for
\* Mode 0, bit 4 for Mode 1, bit 5 for Mode 2, none for Mode 3
StatSource(m, stat) ==
    \/ m = HBLANK /\ getBit(stat, 3) = 1
    \/ m = VBLANK /\ getBit(stat, 4) = 1
    \/ m = OAM_SCAN /\ getBit(stat, 5) = 1

\* C33: a PPU step with the LCD on that changes the mode leaves the new mode
\* in STAT bits 0-1 and, the LYC source being off, raises IF bit 1 exactly
\* when the STAT bit of the mode entered (3, 4, 5 for Modes 0, 1, 2) is set,
\* never on entering Mode 3; a step that changes no mode leaves IF bit 1 alone.
C33_ModeTransitionSetsSTAT ==
    [][ (op'.kind = "ppuStep" /\ LcdEnabled)
        => /\ mode' # mode => Get(io', 65) % 4 = mode'
           /\ (mode' # mode /\ getBit(Get(io, 65), 6) = 0
                            /\ getBit(Get(io, 15), 1) = 0)
                 => (getBit(Get(io', 15), 1) = 1 <=> StatSource(mode', Get(io, 65)))
           /\ (mode' = mode /\ getBit(Get(io, 65), 6) = 0)
                 => getBit(Get(io', 15), 1) = getBit(Get(io, 15), 1) ]_vars

\* the PPU has just entered Mode 1 on line 144 with STAT bit 4 set, and IF
\* bit 1 is raised with the VBlank bit
C33_Witness ==
    /\ op.kind = "ppuStep"
    /\ line = 144
    /\ mode = VBLANK
    /\ cycles = 0
    /\ Get(io, 65) % 4 = VBLANK
    /\ getBit(Get(io, 65), 4) = 1
    /\ BitAnd(Get(io, 15), 3) = 3

\* the PPU has just entered Mode 3 with STAT bit 3 set and IF bit 1 is clear
C33_WitnessDrawing ==
    /\ op.kind = "ppuStep"
    /\ mode = DRAWING
    /\ cycles = 4
    /\ Get(io, 65) % 4 = DRAWING
    /\ getBit(Get(io, 65), 3) = 1
    /\ getBit(Get(io, 15), 1) = 0


\* a window pixel is emitted on the PPU's scanline: background and window
\* are enabled (LCDC bits 0 and 5), the line has reached WY and the window's
\* first column WX - 7 is on the screen
WindowVisible ==
    /\ getBit(Get(io, 64), 0) = 1
    /\ getBit(Get(io, 64), 5) = 1
    /\ line >= Get(io, 74)
    /\ Get(io, 75) - 7 <= 159

\* the PPU step renders the scanline it is on (it leaves Mode 3 of a line
\* of the screen)
RendersLine ==
    /\ op'.kind = "ppuStep"
    /\ LcdEnabled
    /\ mode \in {OAM_SCAN, DRAWING}
    /\ mode' \in {HBLANK, VBLANK} \/ line' # line

\* the PPU step takes the line from 153 to 0
WrapsFrame == op'.kind = "ppuStep" /\ LcdEnabled /\ line = 153 /\ line' = 0

\* the PPU is at the start of a frame: LCD on, line 0, nothing of it stepped
FrameStart == LcdEnabled /\ line = 0 /\ mode = OAM_SCAN /\ cycles = 0

\* the window line counter goes up by one in a step that renders a scanline
\* with a window pixel, returns to 0 at the wrap from line 153 to line 0 and
\* is left alone by every other step
CountsWindowLines ==
    /\ (RendersLine /\ WindowVisible)
        => windowLineCounter' = windowLineCounter + 1
    /\ (RendersLine /\ ~WindowVisible)
        => windowLineCounter' = windowLineCounter
    /\ WrapsFrame => windowLineCounter' = 0
    /\ (~RendersLine /\ ~WrapsFrame)
        => windowLineCounter' = windowLineCounter

\* C34: the window line counter increases by one on each scanline on which a
\* window pixel is emitted and not on other scanlines, and it is 0 at the
\* start of every frame.
C34_WindowLineCounter ==
    [][ /\ CountsWindowLines
        /\ FrameStart' => windowLineCounter' = 0 ]_vars

\* a frame starts with the window line counter at 2: the LCD was switched
\* off and on again after two scanlines with window pixels
C34_Witness ==
    /\ FrameStart
    /\ op.kind = "write"
    /\ windowLineCounter = 2


\* the number of 16 KiB banks of the loaded image
BankCount == cartridge[1].rom.length \div 16384

\* the byte the loaded image holds at offset address of bank
ByteAt(bank, offset) == romAt(cartridge[1].rom, bank * 16384 + offset)

\* the bank of the window 0x4000-0x7FFF for the bytes last written to the
\* low and the high bank register
SwitchableBank(lowWritten, highWritten) ==
    BitAnd((highWritten % 4) * 32 + Substituted(lowWritten % 32), BankCount - 1)

\* the CPU writes value to an address of first..last
Writes(first, last) ==
    op'.kind = "write" /\ op'.addr >= first /\ op'.addr <= last

\* C35: on an MBC1 cartridge every read of 0x4000-0x7FFF returns the byte of
\* bank ((high << 5) | low') & (bank count - 1), low' being the five bits
\* last written to 0x2000-0x3FFF with 0 replaced by 1 (1 after load) and high
\* the two bits last written to 0x4000-0x5FFF (0 after load); the bank is
\* below the bank count and the read is inside the image.
C35_SwitchableBankMasked ==
    [][ \A a \in {16384, 32767} :
          /\ Writes(8192, 16383)
               => Read(Mem', a) =
                    ByteAt(SwitchableBank(op'.val,
                               cartridge[1].mbc.ramBankOrRomBankHigh), a - 16384)
          /\ Writes(16384, 24575)
               => Read(Mem', a) =
                    ByteAt(SwitchableBank(cartridge[1].mbc.romBankLow, op'.val),
                           a - 16384)
          /\ ~Writes(8192, 24575) => Read(Mem', a) = Read(Mem, a)
          /\ op.kind = "none"
               => Read(Mem, a) = ByteAt(SwitchableBank(1, 0), a - 16384)
          /\ Read(Mem', a) \in 0..(BankCount - 1) ]_vars

\* 0xFF has been written to the high register of the 128-bank cartridge with
\* 0x1F in the low register, and 0x7FFF reads the last byte of bank 0x7F
C35_Witness ==
    /\ Loaded({1}, 128)
    /\ op.kind = "write" /\ op.addr = 24575 /\ op.val = 255
    /\ cartridge[1].mbc.romBankLow = 31
    /\ Read(Mem, 32767) = 127

\* 0x60 has been written to the low register of the 4-bank cartridge with 3
\* in the high register: bank (0x61 & 3) = 1 is read
C35_WitnessSmall ==
    /\ Loaded({1}, 4)
    /\ op.kind = "write" /\ op.addr = 8192 /\ op.val = 96
    /\ cartridge[1].mbc.ramBankOrRomBankHigh = 3
    /\ Read(Mem, 16384) = 1


\* the bank of the window 0x0000-0x3FFF for the bytes last written to the
\* mode and the high bank register
FixedBank(modeWritten, highWritten) ==
    IF modeWritten % 2 = 0 THEN 0
    ELSE BitAnd((highWritten % 4) * 32, BankCount - 1)

\* C36: on an MBC1 cartridge every read of 0x0000-0x3FFF returns the byte of
\* physical bank 0 while the mode register (bit 0 last written to
\* 0x6000-0x7FFF, 0 after load) is 0, whatever the other banking registers
\* hold, and the byte of bank (high << 5) & (bank count - 1) while it is 1.
C36_FixedWindowFollowsMode ==
    [][ \A a \in {0, 16383} :
          /\ Writes(24576, 32767)
               => Read(Mem', a) =
                    ByteAt(FixedBank(op'.val,
                               cartridge[1].mbc.ramBankOrRomBankHigh), a)
          /\ Writes(16384, 24575)
               => Read(Mem', a) =
                    ByteAt(FixedBank(cartridge[1].mbc.bankingMode, op'.val), a)
          /\ ~Writes(16384, 32767) => Read(Mem', a) = Read(Mem, a)
          /\ op.kind = "none" => Read(Mem, a) = ByteAt(0, a)
          /\ cartridge'[1].mbc.bankingMode = 0 => Read(Mem', a) = ByteAt(0, a) ]_vars

\* mode 1 has been written to the 64-bank cartridge with 1 in the high
\* register, and 0x0000 reads bank 0x20
C36_Witness ==
    /\ Loaded({1}, 64)
    /\ op.kind = "write" /\ op.addr = 24576 /\ op.val = 1
    /\ cartridge[1].mbc.ramBankOrRomBankHigh = 1
    /\ Read(Mem, 0) = 32

\* mode 0 has been written with 3 in the high register and 0x1F in the low
\* register of the 128-bank cartridge, and 0x3FFF reads bank 0
C36_WitnessSimple ==
    /\ Loaded({1}, 128)
    /\ op.kind = "write" /\ op.addr = 32767 /\ op.val = 96
    /\ cartridge[1].mbc.ramBankOrRomBankHigh = 3
    /\ cartridge[1].mbc.romBankLow = 31
    /\ Read(Mem, 16383) = 0


\* the OAM entries whose vertical range covers the PPU's scanline, and the
\* first ten of them in OAM order
Covering ==
    {i \in 0..39 :
        /\ line >= Get(oam, 4 * i) - 16
        /\ line < Get(oam, 4 * i) - 16 + (IF getBit(Get(io, 64), 2) = 1 THEN 16 ELSE 8)}

FirstTen == {i \in Covering : Cardinality({j \in Covering : j < i}) < 10}

\* the OAM entries a pixel of which has been written to the framebuffer
Contributors == {w[1] : w \in op.val}

\* OAM entry i shows the solid tile 2 in front of the background with a
\* column on the screen
Solid(i) ==
    /\ Get(oam, 4 * i + 2) = 2
    /\ Get(oam, 4 * i + 1) >= 1
    /\ Get(oam, 4 * i + 1) <= 167
    /\ getBit(Get(oam, 4 * i + 3), 7) = 0

\* C37: the sprites drawn on a scanline are among the first ten OAM entries,
\* in OAM order, whose vertical range covers the line, whether or not those
\* are on the screen or transparent: no later covering entry contributes a
\* pixel, and each of the ten that shows a solid tile on the screen does.
C37_TenSpritesPerLine ==
    op.kind = "renderSprites"
        => /\ Contributors \subseteq FirstTen
           /\ Cardinality(Contributors) <= 10
           /\ \A i \in FirstTen : Solid(i) => i \in Contributors

\* thirteen entries cover the line, the first three of them left of the
\* screen: entries 3 to 9 are drawn, entries 10 to 12 are not
C37_Witness ==
    /\ op.kind = "renderSprites"
    /\ Cardinality(Covering) = 13
    /\ Get(oam, 1) = 0
    /\ Contributors = 3..9

\* eleven entries cover the line and all show the solid tile: the first ten
\* are drawn
C37_WitnessTen ==
    /\ op.kind = "renderSprites"
    /\ line = 2
    /\ Cardinality(Covering) = 11
    /\ Contributors = 0..9

\* a button event has just raised the Joypad interrupt, IF bit 4
JoypadRaises ==
    /\ op'.kind \in {"press", "release"}
    /\ getBit(Get(io, 15), 4) = 0
    /\ getBit(Get(io', 15), 4) = 1

\* a release never raises the Joypad interrupt
ReleaseNeverRaises == [][ JoypadRaises => op'.kind = "press" ]_vars

\* C38: a button event raises the Joypad interrupt, IF bit 4, only when some
\* bit 0-3 of the P1 read-back goes from 1 to 0 in it; so a release raises
\* nothing, and neither does the press of a button whose group P1 bits 4-5
\* do not select.
C38_JoypadInterruptOnlyOnFallingEdge ==
    [][ JoypadRaises
        => \E k \in 0..3 :
               /\ getBit(Read(Mem, 65280), k) = 1
               /\ getBit(Read(Mem', 65280), k) = 0 ]_vars

\* A has been pressed while P1 selects the directions only (bit 5 set, bit 4
\* clear): no direction is held, bits 0-3 read 1, and the Joypad interrupt
\* is pending
C38_Witness ==
    /\ op.kind = "press"
    /\ op.val = A
    /\ buttonStates = {A}
    /\ Read(Mem, 65280) = 47
    /\ getBit(Get(io, 15), 4) = 1

\* C39: a RETI that ends an interrupt handler (the handler has left SP where
\* the dispatch put it and the two pushed bytes as they were) sets PC to
\* the PC at the dispatch and SP to the SP before the dispatch, and leaves
\* IME true; so does each return of nested handlers.
C39_DispatchRetiRoundTrip ==
    [][ (steps' = steps + 1 /\ op'.kind = "RETI")
        => /\ pc' = Pending[Len(Pending)].pc
           /\ sp' = Pending[Len(Pending)].sp
           /\ ime' ]_vars

\* the VBlank handler entered at PC = 0x0103 with SP = 0xD000 has returned
C39_Witness ==
    /\ op.kind = "RETI"
    /\ Pending = <<>>
    /\ pc = 259
    /\ sp = 53248
    /\ ime
    /\ Get(wram, 4095) = 1
    /\ Get(wram, 4094) = 3

\* a handler that interrupted the VBlank handler has returned into it
C39_WitnessNested ==
    /\ op.kind = "RETI"
    /\ Len(Pending) = 1
    /\ pc > 64
    /\ pc < 72
    /\ sp = Pending[1].sp - 2
    /\ ime

\* the cycles the current mode lasts: 80, 172 and 204 on a visible line,
\* 456 for each line of VBlank
ModeCycles ==
    CASE mode = OAM_SCAN -> OAM_SCAN_CYCLES
      [] mode = DRAWING -> DRAWING_CYCLES
      [] mode = HBLANK -> HBLANK_CYCLES
      [] mode = VBLANK -> 456

\* C40: step() ends, its loop leaving by itself within two passes for any
\* cycle count of a CPU step, and when it returns with the LCD enabled the
\* accumulator is at least 0 and below the cycles of the current mode: no
\* transition already paid for is left pending.
C40_StepLeavesNoTransitionPending ==
    LcdEnabled
        => /\ \A n \in PpuCycleCounts :
                  ppuPasses([Ppu EXCEPT !.cycles = @ + n], 1000) <= 2
           /\ op.kind = "ppuStep" => (cycles >= 0 /\ cycles < ModeCycles)

\* a step has returned on the last line of VBlank with 452 cycles
\* accumulated, four short of the line's 456
C40_Witness ==
    /\ LcdEnabled
    /\ op.kind = "ppuStep"
    /\ mode = VBLANK
    /\ line = 153
    /\ cycles = 452

\* a step has ended drawing with exactly its 172 cycles accumulated
C40_WitnessExact ==
    /\ LcdEnabled
    /\ op.kind = "ppuStep"
    /\ mode = HBLANK
    /\ cycles = 0
    /\ line = 143

====
